---------------------------- MODULE Spec2Model ----------------------------
(***************************************************************************)
(* A model of the AST node library (ljd/ast/nodes.py) and of the driver    *)
(* (ljd/tools.py) of the LuaJIT decompiler.                                *)
(*                                                                         *)
(* The module holds several state machines over one set of variables, one  *)
(* per part of the program; each has its own specification:                *)
(*   SpecOp       operator kinds: precedence, commutativity                *)
(*   SpecVersion  the process-wide opcode version (set_luajit_version)     *)
(*   SpecPipeline process_file and the stages of decompile                 *)
(*   SpecDriver   process_folder, its worker pool, __main__                *)
(*   SpecSer      to_dict / load_dict over a heap of AST nodes             *)
(*   SpecLoad     load_dict given whole outputs of to_dict and parts of    *)
(*                them                                                     *)
(*   SpecVisit    visitor traversals (_accept) over a heap of AST nodes    *)
(*   SpecGuard    traversals started from inside the hooks of another      *)
(*                traversal                                                *)
(***************************************************************************)
EXTENDS Integers, Sequences, FiniteSets, TLC

VARIABLES
    opNode,          \* the operator node under test: [cls, type]
    opResult,        \* outcome of the last method call on opNode
    CURRENT_VERSION, \* ljd.CURRENT_VERSION, the selected bytecode version
    opcodeTables,    \* version each opcode-dependent module was initialised for
    verCalls,        \* number of set_luajit_version calls made so far
    verLast,         \* the last set_luajit_version call: argument, outcome, state before
    pfFault,         \* process_file: the step at which this input makes the pipeline raise (0: none)
    pfPc,            \* process_file: "parse", "decompile", "open", "write", "done", "raised"
    dcPc,            \* decompile: index into DecompileBody of the next statement
    dcLog,           \* decompile: the calls made so far, in order
    astRev,          \* number of rewrites the AST has undergone
    validatedRev,    \* astRev at the last validator call (-1: never validated)
    astWarped,       \* whether the AST still is a block graph joined by warps
    inTree,          \* the input directory as os.walk lists it: <<[dir, names]>>
    hook,            \* the update_outputname argument of process_folder
    mainPc,          \* the main process: "start", "walk", "collect", "report", "returned", "exited"
    walkDir,         \* os.walk loop: index of the directory being listed
    walkName,        \* inner loop: index of the next name (0: directory not entered)
    outDirs,         \* output directories made so far
    fs,              \* the futures, in submission order
    collectIdx,      \* result loop: index of the future awaited next
    success,         \* the success list
    failed,          \* the failed list (the path of each [path, e])
    returned,        \* the value process_folder returned
    exitStatus,      \* exit status of the run (-1: still running)
    heap,            \* the AST nodes alive, by address: <<[cls, attrs]>>
    serRoot,         \* address of the node last given to to_dict (0: none)
    serDict,         \* what that to_dict call returned
    loadMapping,     \* load_dict's default mapping argument: id -> address
    loadedFrom,      \* the root whose dictionary the last load_dict call loaded (0: a part only)
    loadData,        \* the argument of the last load_dict call
    loadResult,      \* what the last load_dict call returned
    loadErr,         \* whether the last load_dict call raised
    loads,           \* number of load_dict calls made so far
    travRoot,        \* the node the last traversal started at (0: none)
    travVisitor,     \* the visitor of the last traversal
    travLog,         \* the hook calls of the last traversal, in order
    travEnded,       \* whether the last traversal came to its end
    travErr,         \* whether the last traversal raised
    anti_loop,       \* TableConstructor.anti_loop
    cur_visitor,     \* TableConstructor.cur_visitor
    travs,           \* number of traversals made so far
    inFlight,        \* the traversals in progress, the innermost last: <<[stack, visitor, root]>>
    hookLog,         \* the hook calls of all traversals so far, in order
    started          \* number of traversals started so far

opVars == <<opNode, opResult>>
verVars == <<CURRENT_VERSION, opcodeTables, verCalls, verLast>>
pfVars == <<pfFault, pfPc, dcPc, dcLog, astRev, validatedRev, astWarped>>
drvVars == <<inTree, hook, mainPc, walkDir, walkName, outDirs, fs, collectIdx,
             success, failed, returned, exitStatus>>
serVars == <<heap, serRoot, serDict, loadMapping, loadedFrom, loadData, loadResult,
             loadErr, loads>>
visitVars == <<travRoot, travVisitor, travLog, travEnded, travErr, anti_loop,
               cur_visitor, travs>>
guardVars == <<inFlight, hookLog, started>>

\* What a step of one machine leaves alone: the other machines.
notOp == <<verVars, pfVars, drvVars, serVars, visitVars, guardVars>>
notVer == <<opVars, pfVars, drvVars, serVars, visitVars, guardVars>>
notPf == <<opVars, verVars, drvVars, serVars, visitVars, guardVars>>
notDrv == <<opVars, pfVars, serVars, visitVars, guardVars>>
notSer == <<opVars, verVars, pfVars, drvVars, visitVars, guardVars>>
notVisit == <<opVars, verVars, pfVars, drvVars, serVars, guardVars>>
notGuard == <<opVars, verVars, pfVars, drvVars, serVars, travRoot, travVisitor,
              travLog, travEnded, travErr, travs>>

-----------------------------------------------------------------------------
(* Operator kinds: BinaryOperator / UnaryOperator (nodes.py 251-424)       *)

T_LOGICAL_OR == 0
T_LOGICAL_AND == 10
T_LESS_THEN == 20
T_GREATER_THEN == 21
T_LESS_OR_EQUAL == 22
T_GREATER_OR_EQUAL == 23
T_NOT_EQUAL == 24
T_EQUAL == 25
T_CONCAT == 30
T_ADD == 40
T_SUBTRACT == 41
T_MULTIPLY == 50
T_DIVISION == 51
T_MOD == 52
T_POW == 70

PR_OR == 1
PR_AND == 2
PR_COMPARISON == 3
PR_CONCATENATE == 4
PR_MATH_ADDSUB == 5
PR_MATH == 6
PR_UNARY == 7
PR_EXPONENT == 8

T_NOT == 60
T_LENGTH_OPERATOR == 61
T_MINUS == 62
T_TOSTRING == 63
T_TONUMBER == 64

\* The type an operator node has until a builder sets it (__init__).
UnsetType == -1

\* Largest type code the operator machine draws (above T_POW, so that the
\* rejecting branch of the range tests is exercised).
MaxTypeCode == 72

BinaryTypes ==
    {T_LOGICAL_OR, T_LOGICAL_AND, T_LESS_THEN, T_GREATER_THEN, T_LESS_OR_EQUAL,
     T_GREATER_OR_EQUAL, T_NOT_EQUAL, T_EQUAL, T_CONCAT, T_ADD, T_SUBTRACT,
     T_MULTIPLY, T_DIVISION, T_MOD, T_POW}

UnaryTypes == {T_NOT, T_LENGTH_OPERATOR, T_MINUS, T_TOSTRING, T_TONUMBER}

TypeCodes == UnsetType .. MaxTypeCode

\* A method's outcome: it raised, or it returned a level / a truth value.
Raised(exc) == [raised |-> TRUE, exc |-> exc, level |-> 0, truth |-> FALSE]
Level(n) == [raised |-> FALSE, exc |-> "", level |-> n, truth |-> FALSE]
Truth(b) == [raised |-> FALSE, exc |-> "", level |-> 0, truth |-> b]

\* BinaryOperator.precedence(): a chain of <= range tests on self.type.
BinaryPrecedence(type) ==
    IF type <= T_LOGICAL_OR THEN Level(PR_OR)
    ELSE IF type <= T_LOGICAL_AND THEN Level(PR_AND)
    ELSE IF type <= T_EQUAL THEN Level(PR_COMPARISON)
    ELSE IF type <= T_CONCAT THEN Level(PR_CONCATENATE)
    ELSE IF type <= T_SUBTRACT THEN Level(PR_MATH_ADDSUB)
    ELSE IF type <= T_MOD THEN Level(PR_MATH)
    ELSE IF type <= T_POW THEN Level(PR_EXPONENT)
    ELSE Raised("ValueError")

\* UnaryOperator.precedence()
UnaryPrecedence(type) == Level(PR_UNARY)

\* A plausible slip: subtraction tested in the same range as addition.
IsCommutative_AddSubMerged(type) ==
    IF type <= T_LOGICAL_AND THEN Truth(TRUE)
    ELSE IF type <= T_GREATER_OR_EQUAL THEN Truth(FALSE)
    ELSE IF type <= T_EQUAL THEN Truth(TRUE)
    ELSE IF type <= T_CONCAT THEN Truth(FALSE)
    ELSE IF type <= T_SUBTRACT THEN Truth(TRUE)
    ELSE IF type <= T_MULTIPLY THEN Truth(TRUE)
    ELSE IF type <= T_MOD THEN Truth(FALSE)
    ELSE IF type <= T_POW THEN Truth(FALSE)
    ELSE Raised("AssertionError")

\* BinaryOperator.is_commutative()
IsCommutative(type) ==
    IF type <= T_LOGICAL_AND THEN Truth(TRUE)
    ELSE IF type <= T_GREATER_OR_EQUAL THEN Truth(FALSE)
    ELSE IF type <= T_EQUAL THEN Truth(TRUE)
    ELSE IF type <= T_CONCAT THEN Truth(FALSE)
    ELSE IF type <= T_ADD THEN Truth(TRUE)
    ELSE IF type <= T_SUBTRACT THEN Truth(FALSE)
    ELSE IF type <= T_MULTIPLY THEN Truth(TRUE)
    ELSE IF type <= T_MOD THEN Truth(FALSE)
    ELSE IF type <= T_POW THEN Truth(FALSE)
    ELSE Raised("AssertionError")

NoCall == [call |-> "none", raised |-> FALSE, exc |-> "", level |-> 0, truth |-> FALSE]

Called(name, out) ==
    [call |-> name, raised |-> out.raised, exc |-> out.exc,
     level |-> out.level, truth |-> out.truth]

\* BinaryOperator() / UnaryOperator(): type starts unset.
OpInit ==
    /\ opNode \in [cls : {"BinaryOperator", "UnaryOperator"}, type : {UnsetType}]
    /\ opResult = NoCall

\* A builder assigns the node's type (any integer: the field is unchecked).
SetType ==
    /\ \E t \in TypeCodes : opNode' = [opNode EXCEPT !.type = t]
    /\ opResult' = NoCall
    /\ UNCHANGED notOp

CallPrecedence ==
    /\ opResult' = Called("precedence",
                          IF opNode.cls = "BinaryOperator"
                          THEN BinaryPrecedence(opNode.type)
                          ELSE UnaryPrecedence(opNode.type))
    /\ UNCHANGED <<opNode, notOp>>

CallIsCommutative ==
    /\ opNode.cls = "BinaryOperator"
    /\ opResult' = Called("is_commutative", IsCommutative(opNode.type))
    /\ UNCHANGED <<opNode, notOp>>

OpNext == SetType \/ CallPrecedence \/ CallIsCommutative

-----------------------------------------------------------------------------
(* The opcode version: set_luajit_version (tools.py 54-70, 164-165)        *)

\* Number of set_luajit_version calls a behaviour makes after the import.
MaxCalls == 6

\* Arguments the callers pass: the two supported versions and others.
VersionArgs == {19, 20, 21, 22}

\* The three modules set_luajit_version re-initialises, each built for one version.
TablesFor(v) == [code |-> v, builder |-> v, instructions |-> v]

\* set_luajit_version(bc_version) from the state (cur, tabs): the state it
\* leaves, whether it raised, and whether it re-initialised the tables.
SetLuajitVersion(cur, tabs, bc_version) ==
    IF cur = bc_version
    THEN [version |-> cur, tables |-> tabs, raised |-> FALSE, reinit |-> FALSE]
    ELSE \* ljd.CURRENT_VERSION = bc_version comes before the version test
         IF bc_version = 20 \/ bc_version = 21
         THEN [version |-> bc_version, tables |-> TablesFor(bc_version),
               raised |-> FALSE, reinit |-> TRUE]
         ELSE [version |-> bc_version, tables |-> tabs,
               raised |-> TRUE, reinit |-> FALSE]

NoVersionCall ==
    [called |-> FALSE, arg |-> 21, raised |-> FALSE, reinit |-> FALSE,
     prevVersion |-> 21, prevTables |-> TablesFor(21)]

\* The state once the module is imported: its last statement is
\* set_luajit_version(21), "use LuaJIT-2.0.1 as default target".
VerInit ==
    /\ CURRENT_VERSION = 21
    /\ opcodeTables = TablesFor(21)
    /\ verCalls = 0
    /\ verLast = NoVersionCall

\* Any caller selects a version; a ValueError is caught by the caller.
CallSetLuajitVersion ==
    /\ verCalls < MaxCalls
    /\ \E v \in VersionArgs :
         LET r == SetLuajitVersion(CURRENT_VERSION, opcodeTables, v) IN
         /\ CURRENT_VERSION' = r.version
         /\ opcodeTables' = r.tables
         /\ verLast' = [called |-> TRUE, arg |-> v, raised |-> r.raised,
                        reinit |-> r.reinit, prevVersion |-> CURRENT_VERSION,
                        prevTables |-> opcodeTables]
    /\ verCalls' = verCalls + 1
    /\ UNCHANGED notVer

VerNext == CallSetLuajitVersion

-----------------------------------------------------------------------------
(* One file through the pipeline: process_file and decompile               *)
(* (tools.py 73-100)                                                       *)

\* A plausible slip: slot elimination is run before the locals are marked.
DecompileBody_SlotsBeforeLocals ==
    << [fn |-> "build",                  flag |-> "",                    kind |-> "build"],
       [fn |-> "validate",               flag |-> "warped=True",         kind |-> "validate"],
       [fn |-> "pre_pass",               flag |-> "",                    kind |-> "rewrite"],
       [fn |-> "validate",               flag |-> "warped=True",         kind |-> "validate"],
       [fn |-> "eliminate_temporary",    flag |-> "identify_slots=True", kind |-> "rewrite"],
       [fn |-> "mark_locals",            flag |-> "",                    kind |-> "rewrite"],
       [fn |-> "unwarp",                 flag |-> "",                    kind |-> "rewrite"],
       [fn |-> "mark_local_definitions", flag |-> "",                    kind |-> "rewrite"],
       [fn |-> "primary_pass",           flag |-> "",                    kind |-> "rewrite"],
       [fn |-> "validate",               flag |-> "warped=False",        kind |-> "validate"],
       [fn |-> "mark_locals",            flag |-> "alt_mode=True",       kind |-> "rewrite"],
       [fn |-> "mark_local_definitions", flag |-> "",                    kind |-> "rewrite"] >>

\* The statements of decompile(), in program order.  A call is a validator
\* call (with its warped flag) or a stage that rewrites the AST in place.
DecompileBody ==
    << [fn |-> "build",                  flag |-> "",                    kind |-> "build"],
       [fn |-> "validate",               flag |-> "warped=True",         kind |-> "validate"],
       [fn |-> "pre_pass",               flag |-> "",                    kind |-> "rewrite"],
       [fn |-> "validate",               flag |-> "warped=True",         kind |-> "validate"],
       [fn |-> "mark_locals",            flag |-> "",                    kind |-> "rewrite"],
       [fn |-> "eliminate_temporary",    flag |-> "identify_slots=True", kind |-> "rewrite"],
       [fn |-> "unwarp",                 flag |-> "",                    kind |-> "rewrite"],
       [fn |-> "mark_local_definitions", flag |-> "",                    kind |-> "rewrite"],
       [fn |-> "primary_pass",           flag |-> "",                    kind |-> "rewrite"],
       [fn |-> "validate",               flag |-> "warped=False",        kind |-> "validate"],
       [fn |-> "mark_locals",            flag |-> "alt_mode=True",       kind |-> "rewrite"],
       [fn |-> "mark_local_definitions", flag |-> "",                    kind |-> "rewrite"] >>

\* Steps of process_file at which an input can make it raise: 1 the parser,
\* 2 .. 13 the statements of decompile (2 is build and the assert after it),
\* 14 open(path_out), 15 the writer.  0: the input raises nowhere.
FaultPoints == 0 .. (Len(DecompileBody) + 3)
FaultOfCall(i) == i + 1
FaultOfOpen == Len(DecompileBody) + 2
FaultOfWrite == Len(DecompileBody) + 3

PfInit ==
    /\ pfFault \in FaultPoints
    /\ pfPc = "parse"
    /\ dcPc = 1
    /\ dcLog = << >>
    /\ astRev = 0
    /\ validatedRev = -1
    /\ astWarped = TRUE

\* header, prototype = ljd.rawdump.parser.parse(path_in); assert prototype
PfParse ==
    /\ pfPc = "parse"
    /\ pfPc' = IF pfFault = 1 THEN "raised" ELSE "decompile"
    /\ UNCHANGED <<pfFault, dcPc, dcLog, astRev, validatedRev, astWarped, notPf>>

AtCall(kind) ==
    /\ pfPc = "decompile"
    /\ dcPc <= Len(DecompileBody)
    /\ DecompileBody[dcPc].kind = kind

\* The call at dcPc is made; it raises when the input faults there.
CallMade ==
    /\ dcLog' = Append(dcLog, DecompileBody[dcPc])
    /\ dcPc' = dcPc + 1
    /\ pfPc' = IF pfFault = FaultOfCall(dcPc) THEN "raised" ELSE "decompile"

\* ast = ljd.ast.builder.build(header, prototype); assert ast
DcBuild ==
    /\ AtCall("build")
    /\ CallMade
    /\ astRev' = astRev + 1
    /\ UNCHANGED <<pfFault, validatedRev, astWarped, notPf>>

\* ljd.ast.validator.validate(ast, warped=...): reads the AST, asserts.
DcValidate ==
    /\ AtCall("validate")
    /\ CallMade
    /\ validatedRev' = astRev
    /\ UNCHANGED <<pfFault, astRev, astWarped, notPf>>

\* A mutator / locals / slotworks / unwarper stage: rewrites the AST in place.
DcRewrite ==
    /\ AtCall("rewrite")
    /\ CallMade
    /\ astRev' = astRev + 1
    /\ astWarped' = IF DecompileBody[dcPc].fn = "unwarp" THEN FALSE ELSE astWarped
    /\ UNCHANGED <<pfFault, validatedRev, notPf>>

\* return ast
DcReturn ==
    /\ pfPc = "decompile"
    /\ dcPc = Len(DecompileBody) + 1
    /\ pfPc' = "open"
    /\ UNCHANGED <<pfFault, dcPc, dcLog, astRev, validatedRev, astWarped, notPf>>

\* with open(path_out, 'w', -1, 'UTF8') as f:
PfOpen ==
    /\ pfPc = "open"
    /\ pfPc' = IF pfFault = FaultOfOpen THEN "raised" ELSE "write"
    /\ UNCHANGED <<pfFault, dcPc, dcLog, astRev, validatedRev, astWarped, notPf>>

\* ljd.lua.writer.write(f, ast)
PfWrite ==
    /\ pfPc = "write"
    /\ pfPc' = IF pfFault = FaultOfWrite THEN "raised" ELSE "done"
    /\ UNCHANGED <<pfFault, dcPc, dcLog, astRev, validatedRev, astWarped, notPf>>

PfNext == PfParse \/ DcBuild \/ DcValidate \/ DcRewrite \/ DcReturn \/ PfOpen \/ PfWrite

-----------------------------------------------------------------------------
(* The batch driver: process_folder and __main__ (tools.py 113-170)        *)

\* Largest number of files in an input tree.
MaxFiles == 2
\* Number of worker processes of the pool.
MaxWorkers == 2

\* A file name is its stem followed by its suffixes: a.luac is <<"a", ".luac">>.
\* The files an input tree is drawn from, in listing order.
CandidateFiles ==
    << [dir |-> ".",   name |-> <<"a", ".luac">>],
       [dir |-> ".",   name |-> <<"a", ".bin">>],
       [dir |-> ".",   name |-> <<"b", ".luac">>],
       [dir |-> "sub", name |-> <<"a", ".luac">>],
       [dir |-> "sub", name |-> <<"c">>] >>

Hooks == {"none", "append_lua", "first_stem"}

\* Path(name).with_suffix('.lua'): the last suffix replaced, or one added.
WithSuffixLua(name) ==
    IF Len(name) = 1 THEN Append(name, ".lua")
    ELSE Append(SubSeq(name, 1, Len(name) - 1), ".lua")

\* out_name: the hook's result when one is given, else with_suffix('.lua').
\* The hooks drawn: name + '.lua', and name.split('.')[0] + '.lua'.
OutName(h, name) ==
    IF h = "append_lua" THEN Append(name, ".lua")
    ELSE IF h = "first_stem" THEN <<name[1], ".lua">>
    ELSE WithSuffixLua(name)

\* The names of directory d, in listing order, among the chosen candidates.
RECURSIVE NamesIn(_, _, _)
NamesIn(d, chosen, i) ==
    IF i > Len(CandidateFiles) THEN << >>
    ELSE LET rest == NamesIn(d, chosen, i + 1) IN
         IF i \in chosen /\ CandidateFiles[i].dir = d
         THEN <<CandidateFiles[i].name>> \o rest
         ELSE rest

\* os.walk, top down: the root directory, then each subdirectory.
TreeOf(chosen) ==
    << [dir |-> ".", names |-> NamesIn(".", chosen, 1)] >> \o
    (IF \E i \in chosen : CandidateFiles[i].dir = "sub"
     THEN << [dir |-> "sub", names |-> NamesIn("sub", chosen, 1)] >>
     ELSE << >>)

\* The relative paths of the files of the input tree.
InputFiles ==
    UNION {{<<inTree[d].dir, inTree[d].names[n]>> : n \in DOMAIN inTree[d].names} :
            d \in DOMAIN inTree}

\* What process_file does for an input that faults at step fault: whether it
\* raised, and whether it had opened (created or truncated) its output file.
ProcessFile(fault) ==
    [raised |-> fault # 0, opened |-> fault = 0 \/ fault = FaultOfWrite]

\* A plausible slip: the path is recorded before the result is known.
CollectOne_AlwaysSuccess(f, succ, fail) ==
    IF f.raised
    THEN [success |-> Append(succ, f.path), failed |-> Append(fail, f.path)]
    ELSE [success |-> Append(succ, f.path), failed |-> fail]

\* One round of the result loop: try f.result() / success.append,
\* except Exception / failed.append.
CollectOne(f, succ, fail) ==
    IF f.raised
    THEN [success |-> succ, failed |-> Append(fail, f.path)]
    ELSE [success |-> Append(succ, f.path), failed |-> fail]

DrvInit ==
    /\ \E chosen \in SUBSET (DOMAIN CandidateFiles) :
         /\ Cardinality(chosen) \in 1 .. MaxFiles
         /\ inTree = TreeOf(chosen)
    /\ hook \in Hooks
    /\ mainPc = "start"
    /\ walkDir = 1
    /\ walkName = 0
    /\ outDirs = {}
    /\ fs = << >>
    /\ collectIdx = 1
    /\ success = << >>
    /\ failed = << >>
    /\ returned = << >>
    /\ exitStatus = -1

\* __main__: set_luajit_version(21), then process_folder up to its first loop.
MainStart ==
    /\ mainPc = "start"
    /\ LET r == SetLuajitVersion(CURRENT_VERSION, opcodeTables, 21) IN
         /\ CURRENT_VERSION' = r.version
         /\ opcodeTables' = r.tables
         /\ verLast' = [called |-> TRUE, arg |-> 21, raised |-> r.raised,
                        reinit |-> r.reinit, prevVersion |-> CURRENT_VERSION,
                        prevTables |-> opcodeTables]
         /\ verCalls' = verCalls + 1
         /\ mainPc' = IF r.raised THEN "exited" ELSE "walk"
         /\ exitStatus' = IF r.raised THEN 1 ELSE exitStatus
    /\ UNCHANGED <<inTree, hook, walkDir, walkName, outDirs, fs, collectIdx,
                   success, failed, returned, notDrv>>

\* The walk goes on with the directory after d, or the first loop is over.
LeaveDir(d) ==
    /\ walkDir' = d + 1
    /\ walkName' = 0
    /\ mainPc' = IF d = Len(inTree)
                 THEN (IF Len(fs') = 0 THEN "report" ELSE "collect")
                 ELSE "walk"

\* for root, _, names in os.walk(in_dir): ... out_root.mkdir(...)
WalkDir ==
    /\ mainPc = "walk"
    /\ walkName = 0
    /\ outDirs' = outDirs \cup {inTree[walkDir].dir}
    /\ fs' = fs
    /\ IF Len(inTree[walkDir].names) = 0
       THEN LeaveDir(walkDir)
       ELSE /\ walkName' = 1
            /\ UNCHANGED <<walkDir, mainPc>>
    /\ UNCHANGED <<inTree, hook, collectIdx, success, failed, returned, exitStatus,
                   verVars, notDrv>>

\* for name in names: ... f = executor.submit(process_file, path_in, path_out)
SubmitFile ==
    /\ mainPc = "walk"
    /\ walkName >= 1
    /\ LET dir == inTree[walkDir].dir
           name == inTree[walkDir].names[walkName] IN
       fs' = Append(fs, [path |-> <<dir, name>>,
                         path_in |-> <<dir, name>>,
                         path_out |-> <<dir, OutName(hook, name)>>,
                         state |-> "pending", raised |-> FALSE, opened |-> FALSE])
    /\ IF walkName = Len(inTree[walkDir].names)
       THEN LeaveDir(walkDir)
       ELSE /\ walkName' = walkName + 1
            /\ UNCHANGED <<walkDir, mainPc>>
    /\ UNCHANGED <<inTree, hook, outDirs, collectIdx, success, failed, returned,
                   exitStatus, verVars, notDrv>>

Running == {i \in DOMAIN fs : fs[i].state = "running"}
Pending == {i \in DOMAIN fs : fs[i].state = "pending"}

\* An idle worker takes the oldest queued call.
StartTask ==
    /\ Cardinality(Running) < MaxWorkers
    /\ \E i \in Pending :
         /\ \A j \in Pending : i <= j
         /\ fs' = [fs EXCEPT ![i].state = "running"]
    /\ UNCHANGED <<inTree, hook, mainPc, walkDir, walkName, outDirs, collectIdx,
                   success, failed, returned, exitStatus, verVars, notDrv>>

\* A worker's process_file call ends: it returned, or it raised and the
\* future holds the exception.
FinishTask ==
    /\ \E i \in Running, fault \in FaultPoints :
         LET r == ProcessFile(fault) IN
         fs' = [fs EXCEPT ![i].state = "done", ![i].raised = r.raised,
                          ![i].opened = r.opened]
    /\ UNCHANGED <<inTree, hook, mainPc, walkDir, walkName, outDirs, collectIdx,
                   success, failed, returned, exitStatus, verVars, notDrv>>

\* for f in fs: try: f.result() ... (f.result() blocks until the call ended)
CollectResult ==
    /\ mainPc = "collect"
    /\ fs[collectIdx].state = "done"
    /\ LET r == CollectOne(fs[collectIdx], success, failed) IN
         /\ success' = r.success
         /\ failed' = r.failed
    /\ collectIdx' = collectIdx + 1
    /\ mainPc' = IF collectIdx = Len(fs) THEN "report" ELSE "collect"
    /\ UNCHANGED <<inTree, hook, walkDir, walkName, outDirs, fs, returned, exitStatus,
                   verVars, notDrv>>

\* The log lines, then return success.
ReturnSuccess ==
    /\ mainPc = "report"
    /\ returned' = success
    /\ mainPc' = "returned"
    /\ UNCHANGED <<inTree, hook, walkDir, walkName, outDirs, fs, collectIdx,
                   success, failed, exitStatus, verVars, notDrv>>

\* process_folder(...) is the script's last statement: its value is dropped
\* and the interpreter ends normally.
MainExit ==
    /\ mainPc = "returned"
    /\ exitStatus' = 0
    /\ mainPc' = "exited"
    /\ UNCHANGED <<inTree, hook, walkDir, walkName, outDirs, fs, collectIdx,
                   success, failed, returned, verVars, notDrv>>

DrvNext ==
    \/ MainStart
    \/ WalkDir
    \/ SubmitFile
    \/ StartTask
    \/ FinishTask
    \/ CollectResult
    \/ ReturnSuccess
    \/ MainExit

-----------------------------------------------------------------------------
(* The heap of AST nodes and the node classes (nodes.py 64-880)            *)

\* A value held by an attribute, a list element or a dictionary entry:
\* None, an int, a bool, a str, a reference to the object at an address
\* (v is what id() gives for it), or a list of values.
None == [k |-> "none", v |-> 0]
IntVal(n) == [k |-> "int", v |-> n]
BoolVal(b) == [k |-> "bool", v |-> b]
StrVal(s) == [k |-> "str", v |-> s]
Obj(a) == [k |-> "obj", v |-> a]
ListVal(items) == [k |-> "list", v |-> items]
\* In a class's __init__: the attribute is set to a new instance of class c.
New(c) == [k |-> "new", v |-> c]

\* In a class's _accept: visitor._visit(self.f) / visitor._visit_list(self.f).
Visit(f) == [f |-> f, list |-> FALSE]
VisitList(f) == [f |-> f, list |-> TRUE]

\* Each class: its _slots, the attributes its __init__ sets (in order), the
\* visit_/leave_ hook its _accept fires ("" for none) and the attributes
\* its _accept visits, in order.
Cls_FunctionDefinition ==
    [name |-> "FunctionDefinition",
     slots |-> <<"arguments", "statements">>,
     init |-> <<<<"arguments", New("IdentifiersList")>>,
               <<"statements", New("StatementsList")>>,
               <<"_upvalues", None>>,
               <<"_debuginfo", None>>,
               <<"_instructions_count", IntVal(0)>>,
               <<"error", None>>>>,
     hook |-> "function_definition",
     accept |-> <<Visit("arguments"), Visit("statements")>>]

Cls_Block ==
    [name |-> "Block",
     slots |-> <<"index", "first_address", "last_address", "contents", "warp", "loop">>,
     init |-> <<<<"index", IntVal(-1)>>,
               <<"warp", None>>,
               <<"contents", ListVal(<< >>)>>,
               <<"first_address", IntVal(0)>>,
               <<"last_address", IntVal(0)>>,
               <<"warpins_count", IntVal(0)>>,
               <<"loop", BoolVal(FALSE)>>>>,
     hook |-> "block",
     accept |-> <<VisitList("contents"), Visit("warp")>>]

Cls_TableConstructor ==
    [name |-> "TableConstructor",
     slots |-> <<"array", "records">>,
     init |-> <<<<"array", New("RecordsList")>>, <<"records", New("RecordsList")>>>>,
     hook |-> "table_constructor",
     accept |-> <<Visit("array"), Visit("records")>>]

Cls_ArrayRecord ==
    [name |-> "ArrayRecord",
     slots |-> <<"value">>,
     init |-> <<<<"value", None>>>>,
     hook |-> "array_record",
     accept |-> <<Visit("value")>>]

Cls_TableRecord ==
    [name |-> "TableRecord",
     slots |-> <<"key", "value">>,
     init |-> <<<<"key", None>>, <<"value", None>>>>,
     hook |-> "table_record",
     accept |-> <<Visit("key"), Visit("value")>>]

Cls_Assignment ==
    [name |-> "Assignment",
     slots |-> <<"destinations", "expressions">>,
     init |-> <<<<"expressions", New("ExpressionsList")>>,
               <<"destinations", New("VariablesList")>>,
               <<"type", IntVal(-1)>>>>,
     hook |-> "assignment",
     accept |-> <<Visit("expressions"), Visit("destinations")>>]

Cls_BinaryOperator ==
    [name |-> "BinaryOperator",
     slots |-> <<"left", "type", "right">>,
     init |-> <<<<"type", IntVal(-1)>>,
               <<"left", None>>,
               <<"right", None>>>>,
     hook |-> "binary_operator",
     accept |-> <<Visit("left"), Visit("right")>>]

Cls_UnaryOperator ==
    [name |-> "UnaryOperator",
     slots |-> <<"type", "operand">>,
     init |-> <<<<"type", IntVal(-1)>>, <<"operand", None>>>>,
     hook |-> "unary_operator",
     accept |-> <<Visit("operand")>>]

Cls_StatementsList ==
    [name |-> "StatementsList",
     slots |-> <<"contents">>,
     init |-> <<<<"contents", ListVal(<< >>)>>>>,
     hook |-> "statements_list",
     accept |-> <<VisitList("contents")>>]

Cls_IdentifiersList ==
    [name |-> "IdentifiersList",
     slots |-> <<"contents">>,
     init |-> <<<<"contents", ListVal(<< >>)>>>>,
     hook |-> "identifiers_list",
     accept |-> <<VisitList("contents")>>]

Cls_RecordsList ==
    [name |-> "RecordsList",
     slots |-> <<"contents">>,
     init |-> <<<<"contents", ListVal(<< >>)>>>>,
     hook |-> "records_list",
     accept |-> <<VisitList("contents")>>]

Cls_VariablesList ==
    [name |-> "VariablesList",
     slots |-> <<"contents">>,
     init |-> <<<<"contents", ListVal(<< >>)>>>>,
     hook |-> "variables_list",
     accept |-> <<VisitList("contents")>>]

Cls_ExpressionsList ==
    [name |-> "ExpressionsList",
     slots |-> <<"contents">>,
     init |-> <<<<"contents", ListVal(<< >>)>>>>,
     hook |-> "expressions_list",
     accept |-> <<VisitList("contents")>>]

Cls_Identifier ==
    [name |-> "Identifier",
     slots |-> <<"name", "type", "slot", "id">>,
     init |-> <<<<"name", None>>,
               <<"type", IntVal(-1)>>,
               <<"slot", IntVal(-1)>>,
               <<"id", IntVal(-1)>>,
               <<"_varinfo", None>>>>,
     hook |-> "identifier",
     accept |-> << >>]

Cls_MULTRES ==
    [name |-> "MULTRES",
     slots |-> << >>,
     init |-> << >>,
     hook |-> "multres",
     accept |-> << >>]

Cls_GetItem ==
    [name |-> "GetItem",
     slots |-> <<"table", "key">>,
     init |-> <<<<"table", None>>, <<"key", None>>>>,
     hook |-> "table_element",
     accept |-> <<Visit("key"), Visit("table")>>]

Cls_Vararg ==
    [name |-> "Vararg",
     slots |-> << >>,
     init |-> << >>,
     hook |-> "vararg",
     accept |-> << >>]

\* A plausible slip: the callee visited before the arguments (source order).
Cls_FunctionCall_FunctionFirst ==
    [name |-> "FunctionCall",
     slots |-> <<"function", "arguments", "is_method">>,
     init |-> <<<<"function", None>>,
               <<"arguments", New("ExpressionsList")>>,
               <<"is_method", BoolVal(FALSE)>>>>,
     hook |-> "function_call",
     accept |-> <<Visit("function"), Visit("arguments")>>]

Cls_FunctionCall ==
    [name |-> "FunctionCall",
     slots |-> <<"function", "arguments", "is_method">>,
     init |-> <<<<"function", None>>,
               <<"arguments", New("ExpressionsList")>>,
               <<"is_method", BoolVal(FALSE)>>>>,
     hook |-> "function_call",
     accept |-> <<Visit("arguments"), Visit("function")>>]

Cls_If ==
    [name |-> "If",
     slots |-> <<"expression", "then_block", "elseifs", "else_block">>,
     init |-> <<<<"expression", None>>,
               <<"then_block", New("StatementsList")>>,
               <<"elseifs", ListVal(<< >>)>>,
               <<"else_block", New("StatementsList")>>>>,
     hook |-> "if",
     accept |-> <<Visit("expression"), Visit("then_block"), VisitList("elseifs"), Visit("else_block")>>]

Cls_ElseIf ==
    [name |-> "ElseIf",
     slots |-> <<"expression", "then_block">>,
     init |-> <<<<"expression", None>>, <<"then_block", New("StatementsList")>>>>,
     hook |-> "elseif",
     accept |-> <<Visit("expression"), Visit("then_block")>>]

\* A plausible slip: the warp's target visited like a child.
Cls_UnconditionalWarp_VisitsTarget ==
    [name |-> "UnconditionalWarp",
     slots |-> <<"type", "target", "is_uclo">>,
     init |-> <<<<"type", IntVal(-1)>>,
               <<"target", None>>,
               <<"is_uclo", BoolVal(FALSE)>>>>,
     hook |-> "unconditional_warp",
     accept |-> <<Visit("target")>>]

Cls_UnconditionalWarp ==
    [name |-> "UnconditionalWarp",
     slots |-> <<"type", "target", "is_uclo">>,
     init |-> <<<<"type", IntVal(-1)>>,
               <<"target", None>>,
               <<"is_uclo", BoolVal(FALSE)>>>>,
     hook |-> "unconditional_warp",
     accept |-> << >>]

Cls_ConditionalWarp ==
    [name |-> "ConditionalWarp",
     slots |-> <<"condition", "true_target", "false_target">>,
     init |-> <<<<"condition", None>>,
               <<"true_target", None>>,
               <<"false_target", None>>>>,
     hook |-> "conditional_warp",
     accept |-> <<Visit("condition")>>]

Cls_IteratorWarp ==
    [name |-> "IteratorWarp",
     slots |-> <<"variables", "controls", "body", "way_out">>,
     init |-> <<<<"variables", New("VariablesList")>>,
               <<"controls", New("ExpressionsList")>>,
               <<"body", None>>,
               <<"way_out", None>>>>,
     hook |-> "iterator_warp",
     accept |-> <<Visit("variables"), Visit("controls")>>]

Cls_NumericLoopWarp ==
    [name |-> "NumericLoopWarp",
     slots |-> <<"index", "controls", "body", "way_out">>,
     init |-> <<<<"index", New("Identifier")>>,
               <<"controls", New("ExpressionsList")>>,
               <<"body", None>>,
               <<"way_out", None>>>>,
     hook |-> "numeric_loop_warp",
     accept |-> <<Visit("index"), Visit("controls")>>]

Cls_EndWarp ==
    [name |-> "EndWarp",
     slots |-> << >>,
     init |-> << >>,
     hook |-> "end_warp",
     accept |-> << >>]

Cls_Return ==
    [name |-> "Return",
     slots |-> <<"returns">>,
     init |-> <<<<"returns", New("ExpressionsList")>>>>,
     hook |-> "return",
     accept |-> <<Visit("returns")>>]

Cls_Break ==
    [name |-> "Break",
     slots |-> << >>,
     init |-> << >>,
     hook |-> "break",
     accept |-> << >>]

Cls_While ==
    [name |-> "While",
     slots |-> <<"expression", "statements">>,
     init |-> <<<<"expression", None>>, <<"statements", New("StatementsList")>>>>,
     hook |-> "while",
     accept |-> <<Visit("expression"), Visit("statements")>>]

Cls_RepeatUntil ==
    [name |-> "RepeatUntil",
     slots |-> <<"expression", "statements">>,
     init |-> <<<<"expression", None>>, <<"statements", New("StatementsList")>>>>,
     hook |-> "repeat_until",
     accept |-> <<Visit("statements"), Visit("expression")>>]

Cls_NumericFor ==
    [name |-> "NumericFor",
     slots |-> <<"variable", "expression", "statements">>,
     init |-> <<<<"variable", None>>,
               <<"expressions", New("ExpressionsList")>>,
               <<"statements", New("StatementsList")>>>>,
     hook |-> "numeric_for",
     accept |-> <<Visit("variable"), Visit("expressions"), Visit("statements")>>]

Cls_IteratorFor ==
    [name |-> "IteratorFor",
     slots |-> <<"expressions", "expression", "statements">>,
     init |-> <<<<"expressions", New("ExpressionsList")>>,
               <<"identifiers", New("VariablesList")>>,
               <<"statements", New("StatementsList")>>>>,
     hook |-> "iterator_for",
     accept |-> <<Visit("expressions"), Visit("identifiers"), Visit("statements")>>]

Cls_Constant ==
    [name |-> "Constant",
     slots |-> <<"type", "value">>,
     init |-> <<<<"type", IntVal(-1)>>, <<"value", None>>>>,
     hook |-> "constant",
     accept |-> << >>]

Cls_Primitive ==
    [name |-> "Primitive",
     slots |-> <<"type">>,
     init |-> <<<<"type", IntVal(-1)>>>>,
     hook |-> "primitive",
     accept |-> << >>]

Cls_NoOp ==
    [name |-> "NoOp",
     slots |-> << >>,
     init |-> << >>,
     hook |-> "",
     accept |-> << >>]

ClassTable ==
    <<Cls_FunctionDefinition, Cls_Block, Cls_TableConstructor, 
      Cls_ArrayRecord, Cls_TableRecord, Cls_Assignment, 
      Cls_BinaryOperator, Cls_UnaryOperator, Cls_StatementsList, 
      Cls_IdentifiersList, Cls_RecordsList, Cls_VariablesList, 
      Cls_ExpressionsList, Cls_Identifier, Cls_MULTRES, Cls_GetItem, 
      Cls_Vararg, Cls_FunctionCall, Cls_If, Cls_ElseIf, 
      Cls_UnconditionalWarp, Cls_ConditionalWarp, Cls_IteratorWarp, 
      Cls_NumericLoopWarp, Cls_EndWarp, Cls_Return, Cls_Break, Cls_While, 
      Cls_RepeatUntil, Cls_NumericFor, Cls_IteratorFor, Cls_Constant, 
      Cls_Primitive, Cls_NoOp>>

ClassNames == {ClassTable[i].name : i \in DOMAIN ClassTable}

\* subclass_name_mapping(AstNode)[name]
ClassOf(name) == ClassTable[CHOOSE i \in DOMAIN ClassTable : ClassTable[i].name = name]

\* An object: its class and its attribute dictionary.
NoAttrs == [x \in {} |-> None]
HasAttr(h, a, name) == name \in DOMAIN h[a].attrs
\* getattr(obj, name, None)
GetAttr(h, a, name) == IF HasAttr(h, a, name) THEN h[a].attrs[name] ELSE None
\* setattr(obj, name, val)
SetAttr(h, a, name, val) == [h EXCEPT ![a].attrs = (name :> val) @@ @]

\* The attributes an __init__ leaves on its object, from the class's init
\* table: the k-th object the __init__ constructs is the one at a + k.
InitAttrs(fields, a) ==
    LET Last(name) == CHOOSE i \in DOMAIN fields :
                          /\ fields[i][1] = name
                          /\ \A j \in DOMAIN fields : j > i => fields[j][1] # name
        Made(i) == Cardinality({j \in 1..i : fields[j][2].k = "new"})
        Value(i) == IF fields[i][2].k = "new" THEN Obj(a + Made(i)) ELSE fields[i][2] IN
    [name \in {fields[i][1] : i \in DOMAIN fields} |-> Value(Last(name))]

\* cls(): the object is allocated at the next free address and its __init__
\* runs, constructing the default children in turn.  The classes an
\* __init__ constructs are the list classes, whose own __init__ constructs
\* nothing.  Gives [heap, addr].
Construct(h, cls) ==
    LET a == Len(h) + 1
        fields == ClassOf(cls).init
        made == SelectSeq(fields, LAMBDA f : f[2].k = "new") IN
    [heap |-> h \o <<[cls |-> cls, attrs |-> InitAttrs(fields, a)]>>
                \o [k \in 1..Len(made) |->
                      [cls |-> made[k][2].v,
                       attrs |-> InitAttrs(ClassOf(made[k][2].v).init, a + k)]],
     addr |-> a]

\* Addresses of the nodes of the ASTs below that the machines and claims name.
WarpedFunction == 1
BlockA == 5
AssignA == 8
BlockB == 15
CallB == 17
StructuredFunction == 29
WhileS == 32
LoopBlock == 70
SelfTable == 84

\* warpins_count: the number of warp edges that lead to block b.
WarpIns(b, t1, t2, t3) == Cardinality({i \in 1 .. 3 : <<t1, t2, t3>>[i] = b})

\* The heap once the pipeline has built its ASTs: a warped function (two
\* blocks, a conditional warp to t1 / t2, a jump to t3, an assignment of
\* type ty), a structured function (loops, an if), a block graph of loop
\* warps and a table constructor one of whose records holds the table
\* itself.  Every attribute is one the class's __init__ sets.
AstHeap(ty, t1, t2, t3) ==
    <<
      \* 1 WarpedFunction
      [cls |-> "FunctionDefinition", attrs |-> "arguments" :> Obj(2) @@
          "statements" :> Obj(4) @@ "_upvalues" :> None @@ "_debuginfo" :> None @@
          "_instructions_count" :> IntVal(4) @@ "error" :> None],
      \* 2
      [cls |-> "IdentifiersList", attrs |-> "contents" :> ListVal(<<Obj(3)>>)],
      \* 3
      [cls |-> "Identifier", attrs |-> "name" :> StrVal("x") @@ "type" :> IntVal(1) @@
          "slot" :> IntVal(0) @@ "id" :> IntVal(-1) @@ "_varinfo" :> None],
      \* 4
      [cls |-> "StatementsList", attrs |-> "contents" :> ListVal(<<Obj(5), Obj(15)>>)],
      \* 5 BlockA
      [cls |-> "Block", attrs |-> "index" :> IntVal(0) @@ "warp" :> Obj(6) @@
          "contents" :> ListVal(<<Obj(8)>>) @@ "first_address" :> IntVal(0) @@
          "last_address" :> IntVal(1) @@
          "warpins_count" :> IntVal(WarpIns(BlockA, t1, t2, t3)) @@
          "loop" :> BoolVal(FALSE)],
      \* 6 CondWarp
      [cls |-> "ConditionalWarp", attrs |-> "condition" :> Obj(7) @@
          "true_target" :> Obj(t1) @@ "false_target" :> Obj(t2)],
      \* 7
      [cls |-> "Primitive", attrs |-> "type" :> IntVal(1)],
      \* 8 AssignA
      [cls |-> "Assignment", attrs |-> "expressions" :> Obj(9) @@
          "destinations" :> Obj(13) @@ "type" :> IntVal(ty)],
      \* 9
      [cls |-> "ExpressionsList", attrs |-> "contents" :> ListVal(<<Obj(10)>>)],
      \* 10 GetItemA
      [cls |-> "GetItem", attrs |-> "table" :> Obj(11) @@ "key" :> Obj(12)],
      \* 11
      [cls |-> "Identifier", attrs |-> "name" :> StrVal("t") @@ "type" :> IntVal(3) @@
          "slot" :> IntVal(-1) @@ "id" :> IntVal(-1) @@ "_varinfo" :> None],
      \* 12
      [cls |-> "Constant", attrs |-> "type" :> IntVal(2) @@ "value" :> StrVal("k")],
      \* 13
      [cls |-> "VariablesList", attrs |-> "contents" :> ListVal(<<Obj(14)>>)],
      \* 14
      [cls |-> "Identifier", attrs |-> "name" :> None @@ "type" :> IntVal(0) @@
          "slot" :> IntVal(1) @@ "id" :> IntVal(-1) @@ "_varinfo" :> None],
      \* 15 BlockB
      [cls |-> "Block", attrs |-> "index" :> IntVal(1) @@ "warp" :> Obj(16) @@
          "contents" :> ListVal(<<Obj(17)>>) @@ "first_address" :> IntVal(2) @@
          "last_address" :> IntVal(3) @@
          "warpins_count" :> IntVal(WarpIns(BlockB, t1, t2, t3)) @@
          "loop" :> BoolVal(FALSE)],
      \* 16 JumpWarp
      [cls |-> "UnconditionalWarp", attrs |-> "type" :> IntVal(0) @@
          "target" :> Obj(t3) @@ "is_uclo" :> BoolVal(FALSE)],
      \* 17 CallB
      [cls |-> "FunctionCall", attrs |-> "function" :> Obj(18) @@
          "arguments" :> Obj(19) @@ "is_method" :> BoolVal(FALSE)],
      \* 18
      [cls |-> "Identifier", attrs |-> "name" :> StrVal("f") @@ "type" :> IntVal(3) @@
          "slot" :> IntVal(-1) @@ "id" :> IntVal(-1) @@ "_varinfo" :> None],
      \* 19
      [cls |-> "ExpressionsList", attrs |-> "contents" :> ListVal(<<Obj(20), Obj(21)>>)],
      \* 20
      [cls |-> "Constant", attrs |-> "type" :> IntVal(0) @@ "value" :> IntVal(1)],
      \* 21 Table
      [cls |-> "TableConstructor", attrs |-> "array" :> Obj(22) @@
          "records" :> Obj(25)],
      \* 22
      [cls |-> "RecordsList", attrs |-> "contents" :> ListVal(<<Obj(23)>>)],
      \* 23
      [cls |-> "ArrayRecord", attrs |-> "value" :> Obj(24)],
      \* 24
      [cls |-> "Constant", attrs |-> "type" :> IntVal(0) @@ "value" :> IntVal(1)],
      \* 25
      [cls |-> "RecordsList", attrs |-> "contents" :> ListVal(<<Obj(26)>>)],
      \* 26
      [cls |-> "TableRecord", attrs |-> "key" :> Obj(27) @@ "value" :> Obj(28)],
      \* 27
      [cls |-> "Constant", attrs |-> "type" :> IntVal(2) @@ "value" :> StrVal("k")],
      \* 28
      [cls |-> "Primitive", attrs |-> "type" :> IntVal(1)],
      \* 29 StructuredFunction
      [cls |-> "FunctionDefinition", attrs |-> "arguments" :> Obj(30) @@
          "statements" :> Obj(31) @@ "_upvalues" :> None @@ "_debuginfo" :> None @@
          "_instructions_count" :> IntVal(9) @@ "error" :> None],
      \* 30
      [cls |-> "IdentifiersList", attrs |-> "contents" :> ListVal(<< >>)],
      \* 31
      [cls |-> "StatementsList", attrs |->
          "contents" :> ListVal(<<Obj(32), Obj(39), Obj(46), Obj(52), Obj(63)>>)],
      \* 32 WhileS
      [cls |-> "While", attrs |-> "expression" :> Obj(33) @@ "statements" :> Obj(36)],
      \* 33
      [cls |-> "BinaryOperator", attrs |-> "type" :> IntVal(20) @@ "left" :> Obj(34) @@
          "right" :> Obj(35)],
      \* 34
      [cls |-> "Identifier", attrs |-> "name" :> StrVal("i") @@ "type" :> IntVal(1) @@
          "slot" :> IntVal(0) @@ "id" :> IntVal(-1) @@ "_varinfo" :> None],
      \* 35
      [cls |-> "Constant", attrs |-> "type" :> IntVal(0) @@ "value" :> IntVal(3)],
      \* 36
      [cls |-> "StatementsList", attrs |-> "contents" :> ListVal(<<Obj(37), Obj(38)>>)],
      \* 37
      [cls |-> "Break", attrs |-> NoAttrs],
      \* 38 NoOpS
      [cls |-> "NoOp", attrs |-> NoAttrs],
      \* 39 RepeatS
      [cls |-> "RepeatUntil", attrs |-> "expression" :> Obj(40) @@
          "statements" :> Obj(42)],
      \* 40
      [cls |-> "UnaryOperator", attrs |-> "type" :> IntVal(60) @@ "operand" :> Obj(41)],
      \* 41
      [cls |-> "Identifier", attrs |-> "name" :> StrVal("i") @@ "type" :> IntVal(1) @@
          "slot" :> IntVal(0) @@ "id" :> IntVal(-1) @@ "_varinfo" :> None],
      \* 42
      [cls |-> "StatementsList", attrs |-> "contents" :> ListVal(<<Obj(43)>>)],
      \* 43
      [cls |-> "Return", attrs |-> "returns" :> Obj(44)],
      \* 44
      [cls |-> "ExpressionsList", attrs |-> "contents" :> ListVal(<<Obj(45)>>)],
      \* 45
      [cls |-> "Vararg", attrs |-> NoAttrs],
      \* 46 NumForS
      [cls |-> "NumericFor", attrs |-> "variable" :> Obj(47) @@
          "expressions" :> Obj(48) @@ "statements" :> Obj(51)],
      \* 47
      [cls |-> "Identifier", attrs |-> "name" :> StrVal("i") @@ "type" :> IntVal(1) @@
          "slot" :> IntVal(1) @@ "id" :> IntVal(-1) @@ "_varinfo" :> None],
      \* 48
      [cls |-> "ExpressionsList", attrs |-> "contents" :> ListVal(<<Obj(49), Obj(50)>>)],
      \* 49
      [cls |-> "Constant", attrs |-> "type" :> IntVal(0) @@ "value" :> IntVal(1)],
      \* 50
      [cls |-> "Constant", attrs |-> "type" :> IntVal(0) @@ "value" :> IntVal(10)],
      \* 51
      [cls |-> "StatementsList", attrs |-> "contents" :> ListVal(<< >>)],
      \* 52 IterForS
      [cls |-> "IteratorFor", attrs |-> "expressions" :> Obj(53) @@
          "identifiers" :> Obj(59) @@ "statements" :> Obj(62)],
      \* 53
      [cls |-> "ExpressionsList", attrs |-> "contents" :> ListVal(<<Obj(54)>>)],
      \* 54
      [cls |-> "FunctionCall", attrs |-> "function" :> Obj(55) @@
          "arguments" :> Obj(56) @@ "is_method" :> BoolVal(FALSE)],
      \* 55
      [cls |-> "Identifier", attrs |-> "name" :> StrVal("pairs") @@ "type" :> IntVal(3) @@
          "slot" :> IntVal(-1) @@ "id" :> IntVal(-1) @@ "_varinfo" :> None],
      \* 56
      [cls |-> "ExpressionsList", attrs |-> "contents" :> ListVal(<<Obj(57), Obj(58)>>)],
      \* 57
      [cls |-> "Identifier", attrs |-> "name" :> StrVal("t") @@ "type" :> IntVal(1) @@
          "slot" :> IntVal(0) @@ "id" :> IntVal(-1) @@ "_varinfo" :> None],
      \* 58
      [cls |-> "MULTRES", attrs |-> NoAttrs],
      \* 59
      [cls |-> "VariablesList", attrs |-> "contents" :> ListVal(<<Obj(60), Obj(61)>>)],
      \* 60
      [cls |-> "Identifier", attrs |-> "name" :> StrVal("k") @@ "type" :> IntVal(1) @@
          "slot" :> IntVal(2) @@ "id" :> IntVal(-1) @@ "_varinfo" :> None],
      \* 61
      [cls |-> "Identifier", attrs |-> "name" :> StrVal("v") @@ "type" :> IntVal(1) @@
          "slot" :> IntVal(3) @@ "id" :> IntVal(-1) @@ "_varinfo" :> None],
      \* 62
      [cls |-> "StatementsList", attrs |-> "contents" :> ListVal(<< >>)],
      \* 63 IfS
      [cls |-> "If", attrs |-> "expression" :> Obj(64) @@ "then_block" :> Obj(65) @@
          "elseifs" :> ListVal(<<Obj(66)>>) @@ "else_block" :> Obj(69)],
      \* 64
      [cls |-> "Primitive", attrs |-> "type" :> IntVal(2)],
      \* 65
      [cls |-> "StatementsList", attrs |-> "contents" :> ListVal(<< >>)],
      \* 66
      [cls |-> "ElseIf", attrs |-> "expression" :> Obj(67) @@ "then_block" :> Obj(68)],
      \* 67
      [cls |-> "Primitive", attrs |-> "type" :> IntVal(1)],
      \* 68
      [cls |-> "StatementsList", attrs |-> "contents" :> ListVal(<< >>)],
      \* 69
      [cls |-> "StatementsList", attrs |-> "contents" :> ListVal(<< >>)],
      \* 70 LoopBlock
      [cls |-> "Block", attrs |-> "index" :> IntVal(0) @@ "warp" :> Obj(71) @@
          "contents" :> ListVal(<< >>) @@ "first_address" :> IntVal(0) @@
          "last_address" :> IntVal(5) @@ "warpins_count" :> IntVal(2) @@
          "loop" :> BoolVal(TRUE)],
      \* 71 LoopWarp
      [cls |-> "NumericLoopWarp", attrs |-> "index" :> Obj(72) @@
          "controls" :> Obj(73) @@ "body" :> Obj(70) @@ "way_out" :> Obj(76)],
      \* 72
      [cls |-> "Identifier", attrs |-> "name" :> StrVal("i") @@ "type" :> IntVal(1) @@
          "slot" :> IntVal(0) @@ "id" :> IntVal(-1) @@ "_varinfo" :> None],
      \* 73
      [cls |-> "ExpressionsList", attrs |-> "contents" :> ListVal(<<Obj(74), Obj(75)>>)],
      \* 74
      [cls |-> "Constant", attrs |-> "type" :> IntVal(0) @@ "value" :> IntVal(1)],
      \* 75
      [cls |-> "Constant", attrs |-> "type" :> IntVal(0) @@ "value" :> IntVal(4)],
      \* 76 ExitBlock
      [cls |-> "Block", attrs |-> "index" :> IntVal(1) @@ "warp" :> Obj(77) @@
          "contents" :> ListVal(<< >>) @@ "first_address" :> IntVal(6) @@
          "last_address" :> IntVal(6) @@ "warpins_count" :> IntVal(1) @@
          "loop" :> BoolVal(FALSE)],
      \* 77 IterWarp
      [cls |-> "IteratorWarp", attrs |-> "variables" :> Obj(78) @@
          "controls" :> Obj(80) @@ "body" :> Obj(70) @@ "way_out" :> Obj(82)],
      \* 78
      [cls |-> "VariablesList", attrs |-> "contents" :> ListVal(<<Obj(79)>>)],
      \* 79
      [cls |-> "Identifier", attrs |-> "name" :> StrVal("k") @@ "type" :> IntVal(1) @@
          "slot" :> IntVal(1) @@ "id" :> IntVal(-1) @@ "_varinfo" :> None],
      \* 80
      [cls |-> "ExpressionsList", attrs |-> "contents" :> ListVal(<<Obj(81)>>)],
      \* 81
      [cls |-> "Identifier", attrs |-> "name" :> StrVal("next") @@ "type" :> IntVal(3) @@
          "slot" :> IntVal(-1) @@ "id" :> IntVal(-1) @@ "_varinfo" :> None],
      \* 82 EndBlock
      [cls |-> "Block", attrs |-> "index" :> IntVal(2) @@ "warp" :> Obj(83) @@
          "contents" :> ListVal(<< >>) @@ "first_address" :> IntVal(7) @@
          "last_address" :> IntVal(7) @@ "warpins_count" :> IntVal(1) @@
          "loop" :> BoolVal(FALSE)],
      \* 83
      [cls |-> "EndWarp", attrs |-> NoAttrs],
      \* 84 SelfTable
      [cls |-> "TableConstructor", attrs |-> "array" :> Obj(85) @@
          "records" :> Obj(86)],
      \* 85
      [cls |-> "RecordsList", attrs |-> "contents" :> ListVal(<< >>)],
      \* 86
      [cls |-> "RecordsList", attrs |-> "contents" :> ListVal(<<Obj(87)>>)],
      \* 87
      [cls |-> "TableRecord", attrs |-> "key" :> Obj(88) @@ "value" :> Obj(84)],
      \* 88
      [cls |-> "Constant", attrs |-> "type" :> IntVal(2) @@ "value" :> StrVal("self")]
    >>

-----------------------------------------------------------------------------
(* Serialisation: to_dict and load_dict (nodes.py 26-61, 83-88)            *)

\* Number of load_dict calls a behaviour makes.
MaxLoads == 2

\* A call of to_dict or load_dict runs at most 2^MaxStepsLog steps.
MaxStepsLog == 8

\* A dictionary {'class': c, '_id': id, name: value, ...}: its entries after
\* the first two are kept in insertion order.
Dict(c, id, items) == [k |-> "dict", v |-> [class |-> c, id |-> id, items |-> items]]

\* The recursion of to_dict and of load_dict is followed on an explicit call
\* stack.  A frame is one invocation that is working through a list
\* (kind "list": src the items, out the converted items so far) or through
\* a node's entries (kind "obj": at the node, src its entries, out the
\* entries done so far).  The frame at the bottom is the caller's: it holds
\* the one argument of the outermost call and receives its result.
Frame(kind, at, src) == [kind |-> kind, at |-> at, src |-> src, out |-> << >>]

CallerFrame(arg) == Frame("list", 0, <<arg>>)

\* The element of a one-element set.
Only(S) == CHOOSE x \in S : TRUE

\* The invocation on top has no item left to work on.
TopDone(stack) == Len(stack[Len(stack)].out) = Len(stack[Len(stack)].src)

\* The outermost call has returned to the caller.
BackAtCaller(stack) == Len(stack) = 1 /\ TopDone(stack)

\* to_dict: the invocation on top receives d for the item it is at:
\* d[name] = to_dict(slot, visited), or the next element of the list
\* comprehension.
ToDictGive(td, d) ==
    LET n == Len(td.stack)
        top == td.stack[n] IN
    [td EXCEPT !.stack[n].out =
        Append(@, IF top.kind = "obj" THEN <<top.src[Len(top.out) + 1], d>> ELSE d)]

\* A plausible slip: visited.add(objid) comes before the test
\* 'objid in visited', so every node is given as a Ref.
ToDictStep_AddBeforeTest(h, td) ==
    LET n == Len(td.stack)
        top == td.stack[n]
        i == Len(top.out) + 1 IN
    IF i > Len(top.src)
    THEN ToDictGive([td EXCEPT !.stack = SubSeq(@, 1, n - 1)],
                    IF top.kind = "obj" THEN Dict(h[top.at].cls, top.at, top.out)
                    ELSE ListVal(top.out))
    ELSE LET obj == IF top.kind = "obj" THEN GetAttr(h, top.at, top.src[i])
                    ELSE top.src[i] IN
         IF obj.k = "list"
         THEN [td EXCEPT !.stack = Append(@, Frame("list", 0, obj.v))]
         ELSE IF obj.k # "obj"
         THEN ToDictGive(td, obj)
         ELSE ToDictGive([td EXCEPT !.visited = @ \cup {obj.v}],
                         Dict("Ref", obj.v, << >>))

\* One step of to_dict(obj, visited) on td = [stack, visited, ended], where
\* ended tells that the outermost call has returned.
ToDictStep(h, td) ==
    LET n == Len(td.stack)
        top == td.stack[n]
        i == Len(top.out) + 1 IN
    IF i > Len(top.src)
    THEN \* return d / return [...]
         ToDictGive([td EXCEPT !.stack = SubSeq(@, 1, n - 1)],
                    IF top.kind = "obj" THEN Dict(h[top.at].cls, top.at, top.out)
                    ELSE ListVal(top.out))
    ELSE LET obj == IF top.kind = "obj" THEN GetAttr(h, top.at, top.src[i])
                    ELSE top.src[i] IN
         IF obj.k = "list"
         THEN [td EXCEPT !.stack = Append(@, Frame("list", 0, obj.v))]
         ELSE IF obj.k # "obj"
         THEN ToDictGive(td, obj)
         ELSE IF obj.v \in td.visited
         THEN ToDictGive(td, Dict("Ref", obj.v, << >>))
         ELSE [td EXCEPT !.stack = Append(@, Frame("obj", obj.v,
                                                   ClassOf(h[obj.v].cls).slots)),
                         !.visited = @ \cup {obj.v}]

\* 2^k steps of to_dict, or as many as it takes to return.
RECURSIVE ToDictRun(_, _, _)
ToDictRun(h, td, k) ==
    IF k = 0
    THEN IF td.ended THEN td
         ELSE LET next == ToDictStep(h, td) IN
              [next EXCEPT !.ended = BackAtCaller(next.stack)]
    ELSE Only({IF half.ended THEN half ELSE ToDictRun(h, half, k - 1) :
                 half \in {ToDictRun(h, td, k - 1)}})

\* to_dict(obj, visited): gives [d, visited], the result and the visited set
\* as the call leaves it.
ToDict(h, obj, visited) ==
    Only({[d |-> end.stack[1].out[1], visited |-> end.visited] :
            end \in {ToDictRun(h, [stack |-> <<CallerFrame(obj)>>,
                                   visited |-> visited, ended |-> FALSE],
                               MaxStepsLog)}})

\* load_dict runs on st = [heap, mapping, err, stack, ended]: the heap it
\* allocates in, the mapping dictionary it fills, whether it has raised, the
\* call stack, and whether the outermost call has returned or raised.

\* KeyError: the exception leaves through every invocation.
LoadFailed(st) == [st EXCEPT !.err = TRUE]

\* The invocation on top receives val for the item it is at:
\* setattr(res, key, load_dict(data[key], mapping)), or the next element of
\* the list comprehension.
LoadGive(st, val) ==
    LET n == Len(st.stack)
        top == st.stack[n]
        i == Len(top.out) + 1 IN
    IF top.kind = "obj"
    THEN [st EXCEPT !.heap = SetAttr(@, top.at, top.src[i][1], val),
                    !.stack[n].out = Append(@, top.src[i][1])]
    ELSE [st EXCEPT !.stack[n].out = Append(@, val)]

\* A plausible slip: the new object is not entered in mapping before its
\* entries are loaded.
LoadNode_Unregistered(st, d) ==
    IF d.class \notin ClassNames THEN LoadFailed(st)
    ELSE LET c == Construct(st.heap, d.class) IN
         [st EXCEPT !.heap = c.heap,
                    !.stack = Append(@, Frame("obj", c.addr, d.items))]

\* subcls = cls_map[cls_name]; mapping[obj_id] = res = subcls();
\* for key in data: ...
LoadNode(st, d) ==
    IF d.class \notin ClassNames THEN LoadFailed(st)
    ELSE LET c == Construct(st.heap, d.class) IN
         [st EXCEPT !.heap = c.heap,
                    !.mapping = (d.id :> c.addr) @@ @,
                    !.stack = Append(@, Frame("obj", c.addr, d.items))]

\* One step of load_dict(data, mapping).
LoadStep(st) ==
    LET n == Len(st.stack)
        top == st.stack[n]
        i == Len(top.out) + 1 IN
    IF i > Len(top.src)
    THEN \* return res / return [...]
         LoadGive([st EXCEPT !.stack = SubSeq(@, 1, n - 1)],
                  IF top.kind = "obj" THEN Obj(top.at) ELSE ListVal(top.out))
    ELSE LET data == IF top.kind = "obj" THEN top.src[i][2] ELSE top.src[i] IN
         IF data.k = "list"
         THEN [st EXCEPT !.stack = Append(@, Frame("list", 0, data.v))]
         ELSE IF data.k # "dict"
         THEN LoadGive(st, data)
         ELSE IF data.v.class = "Ref"
         THEN IF data.v.id \in DOMAIN st.mapping
              THEN LoadGive(st, Obj(st.mapping[data.v.id]))
              ELSE LoadFailed(st)
         ELSE LoadNode(st, data.v)

\* 2^k steps of load_dict, or as many as it takes to return or raise.
RECURSIVE LoadRun(_, _)
LoadRun(st, k) ==
    IF k = 0
    THEN IF st.ended THEN st
         ELSE LET next == LoadStep(st) IN
              [next EXCEPT !.ended = next.err \/ BackAtCaller(next.stack)]
    ELSE Only({IF half.ended THEN half ELSE LoadRun(half, k - 1) :
                 half \in {LoadRun(st, k - 1)}})

\* load_dict(data, mapping) in heap h: gives [heap, mapping, err, val].
LoadDict(h, mapping, data) ==
    Only({[heap |-> end.heap, mapping |-> end.mapping, err |-> end.err,
           val |-> IF end.err THEN None ELSE end.stack[1].out[1]] :
            end \in {LoadRun([heap |-> h, mapping |-> mapping, err |-> FALSE,
                              stack |-> <<CallerFrame(data)>>, ended |-> FALSE],
                             MaxStepsLog)}})

\* The roots a caller serialises.
SerRoots == {WarpedFunction, BlockA, CallB, StructuredFunction, WhileS, LoopBlock}

BlockTargets == {BlockA, BlockB}

\* The module is imported (load_dict's default mapping is a new, empty
\* dictionary) and the pipeline has built its ASTs.
SerInit ==
    /\ \E ty \in {0, 1}, t1 \in BlockTargets, t2 \in BlockTargets, t3 \in BlockTargets :
         heap = AstHeap(ty, t1, t2, t3)
    /\ serRoot = 0
    /\ serDict = None
    /\ loadMapping = [x \in {} |-> 0]
    /\ loadedFrom = 0
    /\ loadData = None
    /\ loadResult = None
    /\ loadErr = FALSE
    /\ loads = 0

\* d = root.to_dict()
CallToDict ==
    /\ loads < MaxLoads
    /\ \E r \in SerRoots :
         /\ serRoot' = r
         /\ serDict' = ToDict(heap, Obj(r), {}).d
    /\ UNCHANGED <<heap, loadMapping, loadedFrom, loadData, loadResult, loadErr, loads,
                   notSer>>

\* AstNode.load_dict(d): load_dict(d) with its default mapping argument, the
\* one dictionary made when the function was defined.
CallLoadDict ==
    /\ serRoot # 0
    /\ loads < MaxLoads
    /\ \E r \in {LoadDict(heap, loadMapping, serDict)} :
         /\ heap' = r.heap
         /\ loadMapping' = r.mapping
         /\ loadErr' = r.err
         /\ loadResult' = r.val
    /\ loadedFrom' = serRoot
    /\ loadData' = serDict
    /\ loads' = loads + 1
    /\ UNCHANGED <<serRoot, serDict, notSer>>

SerNext == CallToDict \/ CallLoadDict

\* AstNode.load_dict(part), where part is the value of one entry of d, a
\* dictionary or a list.
CallLoadPart ==
    /\ serRoot # 0
    /\ loads < MaxLoads
    /\ \E i \in {j \in DOMAIN serDict.v.items :
                    serDict.v.items[j][2].k \in {"dict", "list"}} :
       \E r \in {LoadDict(heap, loadMapping, serDict.v.items[i][2])} :
         /\ heap' = r.heap
         /\ loadMapping' = r.mapping
         /\ loadErr' = r.err
         /\ loadResult' = r.val
         /\ loadData' = serDict.v.items[i][2]
    /\ loadedFrom' = 0
    /\ loads' = loads + 1
    /\ UNCHANGED <<serRoot, serDict, notSer>>

-----------------------------------------------------------------------------
(* Traversal: node._accept(visitor) (nodes.py 104-879)                     *)

\* Number of traversals a behaviour makes.
MaxTraversals == 2

\* The visitor objects a caller traverses with.
Visitors == {"v1", "v2"}

\* A hook call: visitor.visit_<hook>(node) or visitor.leave_<hook>(node).
Event(ev, h, a) == [ev |-> ev, hook |-> ClassOf(h[a].cls).hook, node |-> a]

\* A traversal runs on tv = [stack, log, anti_loop, cur_visitor, visitor,
\* err, ended]: the call stack (one frame per _accept or _visit_list in
\* progress; out holds the indices already handed on), the hook calls made
\* so far, TableConstructor's two class attributes, the visitor, whether an
\* exception has ended the traversal, and whether the outermost _accept is
\* over.

\* node._accept(visitor) up to its first child: TableConstructor's guard,
\* then visitor._visit_node(visitor.visit_<hook>, self).  NoOp's _accept is
\* pass.
Accept(h, tv, a) ==
    LET cls == ClassOf(h[a].cls)
        entered == [tv EXCEPT !.log = Append(@, Event("visit", h, a)),
                              !.stack = Append(@, Frame("obj", a, cls.accept))] IN
    IF cls.name = "TableConstructor"
    THEN LET loop == IF tv.cur_visitor # "none" /\ tv.cur_visitor # tv.visitor
                     THEN {} ELSE tv.anti_loop IN
         IF a \in loop
         THEN [tv EXCEPT !.cur_visitor = tv.visitor, !.anti_loop = loop]
         ELSE [entered EXCEPT !.cur_visitor = tv.visitor,
                              !.anti_loop = loop \cup {a}]
    ELSE IF cls.hook = "" THEN tv
    ELSE entered

\* visitor._visit(node): node._accept(visitor); it takes a node.
TravVisit(h, tv, v) ==
    IF v.k = "obj" THEN Accept(h, tv, v.v) ELSE [tv EXCEPT !.err = TRUE]

\* visitor._visit_list(nodes): visitor._visit(node) for each; it takes a list.
TravVisitList(tv, v) ==
    IF v.k = "list" THEN [tv EXCEPT !.stack = Append(@, Frame("list", 0, v.v))]
    ELSE [tv EXCEPT !.err = TRUE]

\* One step of a traversal: the invocation on top hands on its next child,
\* or is over: visitor._leave_node(visitor.leave_<hook>, self).
TravStep(h, tv) ==
    LET n == Len(tv.stack)
        top == tv.stack[n]
        i == Len(top.out) + 1
        on == [tv EXCEPT !.stack[n].out = Append(@, i)] IN
    IF i > Len(top.src)
    THEN [tv EXCEPT !.stack = SubSeq(@, 1, n - 1),
                    !.log = IF top.kind = "obj"
                            THEN Append(@, Event("leave", h, top.at)) ELSE @]
    ELSE IF top.kind = "list" THEN TravVisit(h, on, top.src[i])
    ELSE IF top.src[i].list THEN TravVisitList(on, GetAttr(h, top.at, top.src[i].f))
    ELSE TravVisit(h, on, GetAttr(h, top.at, top.src[i].f))

\* 2^k steps of a traversal, or as many as it takes to be over.
RECURSIVE TravRun(_, _, _)
TravRun(h, tv, k) ==
    IF k = 0
    THEN IF tv.ended THEN tv
         ELSE LET next == TravStep(h, tv) IN
              [next EXCEPT !.ended = next.err \/ next.stack = << >>]
    ELSE Only({IF half.ended THEN half ELSE TravRun(h, half, k - 1) :
                 half \in {TravRun(h, tv, k - 1)}})

\* root._accept(visitor), followed for 2^MaxStepsLog steps at most.
Traverse(h, visitor, root, anti_loop_, cur_visitor_) ==
    LET first == Accept(h, [stack |-> << >>, log |-> << >>,
                            anti_loop |-> anti_loop_, cur_visitor |-> cur_visitor_,
                            visitor |-> visitor, err |-> FALSE, ended |-> FALSE],
                        root) IN
    TravRun(h, [first EXCEPT !.ended = first.stack = << >>], MaxStepsLog)

\* The roots a caller traverses from.
TravRoots == {WarpedFunction, BlockA, AssignA, CallB, StructuredFunction, LoopBlock}

\* nodes.py is imported (anti_loop = set(), cur_visitor = None) and the
\* pipeline has built its ASTs.
VisitInit ==
    /\ travRoot = 0
    /\ travVisitor = "none"
    /\ travLog = << >>
    /\ travEnded = FALSE
    /\ travErr = FALSE
    /\ anti_loop = {}
    /\ cur_visitor = "none"
    /\ travs = 0

\* root._accept(visitor)
CallAccept ==
    /\ travs < MaxTraversals
    /\ \E v \in Visitors, r \in TravRoots :
         \E tv \in {Traverse(heap, v, r, anti_loop, cur_visitor)} :
         /\ travRoot' = r
         /\ travVisitor' = v
         /\ travLog' = tv.log
         /\ travEnded' = (tv.ended /\ ~tv.err)
         /\ travErr' = tv.err
         /\ anti_loop' = tv.anti_loop
         /\ cur_visitor' = tv.cur_visitor
    /\ travs' = travs + 1
    /\ UNCHANGED notVisit

VisitNext == CallAccept

-----------------------------------------------------------------------------
(* Traversals in progress at the same time: a hook of one visitor starts   *)
(* another traversal (nodes.py 162-189)                                    *)

\* Number of traversals a behaviour starts.
MaxStarted == 3
\* Number of traversals in progress at the same time.
MaxNested == 2

GuardInit ==
    /\ inFlight = << >>
    /\ hookLog = << >>
    /\ started = 0

\* The traversal t goes on: it finds the class attributes and the hook calls
\* as the traversals before it have left them.
Resume(t) ==
    [stack |-> t.stack, log |-> hookLog, anti_loop |-> anti_loop,
     cur_visitor |-> cur_visitor, visitor |-> t.visitor, err |-> FALSE,
     ended |-> FALSE]

\* The traversals in progress once the innermost, t, has got as far as tv:
\* it is over when its outermost _accept has returned, and an exception
\* ends every traversal in progress.
Suspend(outer, t, tv) ==
    IF tv.err THEN << >>
    ELSE IF tv.stack = << >> THEN outer
    ELSE Append(outer, [t EXCEPT !.stack = tv.stack,
                                 !.inHook = Len(tv.log) > Len(hookLog)])

\* root._accept(visitor), called by the program or from inside a hook of
\* the innermost traversal in progress.
StartTraversal ==
    /\ started < MaxStarted
    /\ Len(inFlight) < MaxNested
    /\ inFlight # << >> => inFlight[Len(inFlight)].inHook
    /\ \E v \in Visitors, r \in {CallB, SelfTable} :
         \E t \in {[stack |-> << >>, visitor |-> v, root |-> r, inHook |-> FALSE]} :
         \E tv \in {Accept(heap, Resume(t), r)} :
            /\ inFlight' = Suspend(inFlight, t, tv)
            /\ hookLog' = tv.log
            /\ anti_loop' = tv.anti_loop
            /\ cur_visitor' = tv.cur_visitor
    /\ started' = started + 1
    /\ UNCHANGED notGuard

\* The innermost traversal in progress takes its next step.
StepTraversal ==
    /\ inFlight # << >>
    /\ \E t \in {inFlight[Len(inFlight)]} :
       \E tv \in {TravStep(heap, Resume(t))} :
         /\ inFlight' = Suspend(SubSeq(inFlight, 1, Len(inFlight) - 1), t, tv)
         /\ hookLog' = tv.log
         /\ anti_loop' = tv.anti_loop
         /\ cur_visitor' = tv.cur_visitor
    /\ UNCHANGED <<started, notGuard>>

GuardNext == StartTraversal \/ StepTraversal

-----------------------------------------------------------------------------
(* The specifications                                                      *)

vars == <<opVars, verVars, pfVars, drvVars, serVars, visitVars, guardVars>>

\* A machine that is not the subject of a specification stays in one state.
OpIdle ==
    /\ opNode = [cls |-> "BinaryOperator", type |-> UnsetType]
    /\ opResult = NoCall

PfIdle ==
    /\ pfFault = 0
    /\ pfPc = "parse"
    /\ dcPc = 1
    /\ dcLog = << >>
    /\ astRev = 0
    /\ validatedRev = -1
    /\ astWarped = TRUE

DrvIdle ==
    /\ inTree = TreeOf({1})
    /\ hook = "none"
    /\ mainPc = "start"
    /\ walkDir = 1
    /\ walkName = 0
    /\ outDirs = {}
    /\ fs = << >>
    /\ collectIdx = 1
    /\ success = << >>
    /\ failed = << >>
    /\ returned = << >>
    /\ exitStatus = -1

SerIdle ==
    /\ heap = AstHeap(1, BlockA, BlockB, BlockA)
    /\ serRoot = 0
    /\ serDict = None
    /\ loadMapping = [x \in {} |-> 0]
    /\ loadedFrom = 0
    /\ loadData = None
    /\ loadResult = None
    /\ loadErr = FALSE
    /\ loads = 0

VisitIdle == VisitInit

InitOp == OpInit /\ VerInit /\ PfIdle /\ DrvIdle /\ SerIdle /\ VisitIdle /\ GuardInit
SpecOp == InitOp /\ [][OpNext]_vars

InitVersion == OpIdle /\ VerInit /\ PfIdle /\ DrvIdle /\ SerIdle /\ VisitIdle /\ GuardInit
SpecVersion == InitVersion /\ [][VerNext]_vars

InitPipeline == OpIdle /\ VerInit /\ PfInit /\ DrvIdle /\ SerIdle /\ VisitIdle /\ GuardInit
SpecPipeline == InitPipeline /\ [][PfNext]_vars

InitDriver == OpIdle /\ VerInit /\ PfIdle /\ DrvInit /\ SerIdle /\ VisitIdle /\ GuardInit
SpecDriver == InitDriver /\ [][DrvNext]_vars

InitSer == OpIdle /\ VerInit /\ PfIdle /\ DrvIdle /\ SerInit /\ VisitIdle /\ GuardInit
SpecSer == InitSer /\ [][SerNext]_vars

\* load_dict is given whatever dictionary the caller holds.
SpecLoad == InitSer /\ [][SerNext \/ CallLoadPart]_vars

\* The traversals start from the ASTs the serialisation starts from.
InitVisit ==
    OpIdle /\ VerInit /\ PfIdle /\ DrvIdle /\ SerInit /\ VisitInit /\ GuardInit
SpecVisit == InitVisit /\ [][VisitNext]_vars

\* A traversal may start before another has ended, on the same ASTs, with
\* the class attributes as the import left them.
InitGuard ==
    OpIdle /\ VerInit /\ PfIdle /\ DrvIdle /\ SerIdle /\ VisitInit /\ GuardInit
SpecGuard == InitGuard /\ [][GuardNext]_vars

-----------------------------------------------------------------------------
(* Claims about the operator kinds (SpecOp)                                *)

\* The level each defined binary operator kind is documented to have.
DocumentedLevel(type) ==
    IF type = T_LOGICAL_OR THEN 1
    ELSE IF type = T_LOGICAL_AND THEN 2
    ELSE IF type \in {T_LESS_THEN, T_GREATER_THEN, T_LESS_OR_EQUAL,
                      T_GREATER_OR_EQUAL, T_NOT_EQUAL, T_EQUAL} THEN 3
    ELSE IF type = T_CONCAT THEN 4
    ELSE IF type \in {T_ADD, T_SUBTRACT} THEN 5
    ELSE IF type \in {T_MULTIPLY, T_DIVISION, T_MOD} THEN 6
    ELSE 8

\* C3: precedence() gives every defined binary operator kind its documented
\* level (or 1, and 2, comparisons 3, concat 4, add/subtract 5,
\* multiply/divide/mod 6, pow 8) and every unary operator 7; the binary
\* levels never decrease as the type code grows; and a type code that is no
\* defined binary operator kind (the unset -1, a unary code 60..64) is
\* rejected with an error instead of being given a level.
C3_PrecedenceLevels ==
    opResult.call = "precedence" =>
        /\ (opNode.cls = "UnaryOperator") =>
               (~opResult.raised /\ opResult.level = 7)
        /\ (opNode.cls = "BinaryOperator" /\ opNode.type \in BinaryTypes) =>
               /\ ~opResult.raised
               /\ opResult.level = DocumentedLevel(opNode.type)
               /\ \A t \in BinaryTypes :
                      t <= opNode.type =>
                          BinaryPrecedence(t).level <= opResult.level
        /\ (opNode.cls = "BinaryOperator" /\ opNode.type \notin BinaryTypes) =>
               opResult.raised

\* C4: is_commutative() is true exactly for or, and, ~=, ==, + and *, and
\* false for every other defined binary operator kind.
C4_CommutativeKinds ==
    (opResult.call = "is_commutative" /\ opNode.type \in BinaryTypes) =>
        /\ ~opResult.raised
        /\ opResult.truth <=>
               opNode.type \in {T_LOGICAL_OR, T_LOGICAL_AND, T_NOT_EQUAL,
                                T_EQUAL, T_ADD, T_MULTIPLY}

\* is_commutative() has answered for a subtraction, which does not commute.
C4_Witness ==
    /\ opResult.call = "is_commutative"
    /\ opNode.type = T_SUBTRACT
    /\ ~opResult.raised
    /\ ~opResult.truth

-----------------------------------------------------------------------------
(* Claims about the opcode version (SpecVersion)                           *)

\* C10: after any sequence of set_luajit_version calls the selected version
\* is 20 or 21 and is the version the opcode tables were last initialised
\* for; a call with another version raises ValueError and leaves the
\* selected version and the tables unchanged (so that the same call raises
\* again); a call with the already selected version re-initialises nothing.
C10_VersionState ==
    /\ CURRENT_VERSION \in {20, 21}
    /\ opcodeTables = TablesFor(CURRENT_VERSION)
    /\ verLast.called =>
         /\ verLast.arg \notin {20, 21} =>
               /\ verLast.raised
               /\ CURRENT_VERSION = verLast.prevVersion
               /\ opcodeTables = verLast.prevTables
         /\ verLast.arg = verLast.prevVersion =>
               /\ ~verLast.reinit
               /\ opcodeTables = verLast.prevTables

-----------------------------------------------------------------------------
(* Claims about decompile (SpecPipeline)                                   *)

\* The stages in the order the pipeline is documented to run them.
DocumentedStages ==
    << <<"build", "">>, <<"pre_pass", "">>, <<"mark_locals", "">>,
       <<"eliminate_temporary", "identify_slots=True">>, <<"unwarp", "">>,
       <<"mark_local_definitions", "">>, <<"primary_pass", "">>,
       <<"mark_locals", "alt_mode=True">>, <<"mark_local_definitions", "">> >>

IsStage(c) == c.kind # "validate"

\* The stages of the log, without the validator calls.
StagesRun ==
    LET st == SelectSeq(dcLog, IsStage) IN
    [i \in DOMAIN st |-> <<st[i].fn, st[i].flag>>]

DecompileReturned == pfPc \in {"open", "write", "done"}

\* The stages run in the documented order, all of them by the time decompile
\* returns.
StagesInOrder ==
    /\ Len(StagesRun) <= Len(DocumentedStages)
    /\ StagesRun = SubSeq(DocumentedStages, 1, Len(StagesRun))
    /\ DecompileReturned => StagesRun = DocumentedStages

\* Each validator call follows a stage; each validate(warped=True) comes
\* before unwarp and each validate(warped=False) after it.
ValidatedBetweenStages ==
    \A i \in DOMAIN dcLog :
        dcLog[i].kind = "validate" =>
            /\ i > 1 /\ dcLog[i - 1].kind # "validate"
            /\ dcLog[i].flag = "warped=True" =>
                  \A j \in 1 .. i : dcLog[j].fn # "unwarp"
            /\ dcLog[i].flag = "warped=False" =>
                  \E j \in 1 .. i : dcLog[j].fn = "unwarp"

\* C7: the stages run in the fixed order build, pre_pass, mark_locals,
\* eliminate_temporary(identify_slots=True), unwarp, mark_local_definitions,
\* primary_pass, mark_locals(alt_mode), mark_local_definitions; the validator
\* runs between stages, each validate(warped=True) before unwarp and each
\* validate(warped=False) after it; and no stage rewrites the AST after the
\* last validation before the AST is returned.
C7_StageOrderAndValidation ==
    /\ StagesInOrder
    /\ ValidatedBetweenStages
    /\ DecompileReturned => validatedRev = astRev

\* C7, amended: the same order of stages and the same placing of the
\* validator calls; after the last validation exactly two stages rewrite the
\* AST before it is returned, mark_locals(alt_mode=True) and then
\* mark_local_definitions.
C7_StageOrderAmended ==
    /\ StagesInOrder
    /\ ValidatedBetweenStages
    /\ DecompileReturned =>
          /\ astRev = validatedRev + 2
          /\ dcLog[Len(dcLog) - 2].kind = "validate"
          /\ <<dcLog[Len(dcLog) - 1].fn, dcLog[Len(dcLog) - 1].flag>>
                = <<"mark_locals", "alt_mode=True">>
          /\ dcLog[Len(dcLog)].fn = "mark_local_definitions"

\* decompile has returned its AST and the file has been written.
C7_Witness ==
    /\ pfPc = "done"
    /\ StagesRun = DocumentedStages
    /\ ~astWarped

-----------------------------------------------------------------------------
(* Claims about the batch driver (SpecDriver)                              *)

Range(q) == {q[i] : i \in DOMAIN q}
Occurrences(q, x) == Cardinality({i \in DOMAIN q : q[i] = x})

WalkOver == mainPc \in {"collect", "report", "returned", "exited"}
CollectOver == mainPc \in {"report", "returned", "exited"}
FolderReturned == mainPc \in {"returned", "exited"}

\* C8: whatever files raise in process_file, every input file is submitted
\* exactly once and its result awaited, a failing file keeps no other file
\* from being processed, each file ends in exactly one of the success and
\* failed lists, and the returned list holds exactly the relative paths of
\* the files that succeeded.
C8_FailureIsolation ==
    /\ \A p \in InputFiles :
         Cardinality({i \in DOMAIN fs : fs[i].path = p}) <= 1
    /\ WalkOver =>
         \A p \in InputFiles :
            Cardinality({i \in DOMAIN fs : fs[i].path = p}) = 1
    /\ \A i \in DOMAIN fs :
         IF i < collectIdx
         THEN /\ fs[i].state = "done"
              /\ Occurrences(success, fs[i].path) = (IF fs[i].raised THEN 0 ELSE 1)
              /\ Occurrences(failed, fs[i].path) = (IF fs[i].raised THEN 1 ELSE 0)
         ELSE fs[i].path \notin Range(success) \cup Range(failed)
    /\ CollectOver =>
         /\ collectIdx = Len(fs) + 1
         /\ Range(success) \cup Range(failed) = InputFiles
    /\ FolderReturned =>
         /\ Range(returned) = {fs[i].path : i \in {k \in DOMAIN fs : ~fs[k].raised}}
         /\ \A p \in Range(returned) : Occurrences(returned, p) = 1

\* A run has ended in which a file that raised was followed by one that did not.
C8_Witness ==
    /\ mainPc = "exited"
    /\ \E i, j \in DOMAIN fs :
         /\ i < j
         /\ fs[i].raised
         /\ ~fs[j].raised
         /\ returned = <<fs[j].path>>
         /\ failed = <<fs[i].path>>

\* C9: a run over a directory ends with exit status 0 when every file
\* decompiled successfully and with a non-zero status when a file failed.
C9_ExitStatus ==
    mainPc = "exited" =>
        IF \E i \in DOMAIN fs : fs[i].raised
        THEN exitStatus # 0
        ELSE exitStatus = 0

-----------------------------------------------------------------------------
(* Claims about serialisation (SpecSer)                                    *)

\* A load_dict call has been made and has returned a node.
Loaded == loads > 0 /\ ~loadErr /\ loadResult.k = "obj"

\* The nodes two values put side by side: the two nodes themselves, or the
\* nodes at the same index of two lists.
ValuePairs(v, w) ==
    IF v.k = "obj" /\ w.k = "obj" THEN {<<v.v, w.v>>}
    ELSE IF v.k = "list" /\ w.k = "list"
    THEN {<<v.v[i].v, w.v[i].v>> :
            i \in {j \in DOMAIN v.v \cap DOMAIN w.v : v.v[j].k = "obj" /\ w.v[j].k = "obj"}}
    ELSE {}

\* The attributes followed from node a: its serialised slots, or all of them.
Followed(h, a, slotsOnly) ==
    IF slotsOnly THEN Range(ClassOf(h[a].cls).slots) \cap DOMAIN h[a].attrs
    ELSE DOMAIN h[a].attrs

\* The pairs of nodes found at the same attribute of the two nodes of p.
Kids(h, p, slotsOnly) ==
    UNION {ValuePairs(h[p[1]].attrs[n], h[p[2]].attrs[n]) :
             n \in Followed(h, p[1], slotsOnly) \cap DOMAIN h[p[2]].attrs}

\* The pairs of nodes at the same field position of two graphs: the least
\* relation that holds the pairs of R and the Kids of its pairs.
RECURSIVE SamePosition(_, _, _)
SamePosition(h, R, slotsOnly) ==
    LET S == R \cup UNION {Kids(h, p, slotsOnly) : p \in R} IN
    IF S = R THEN R ELSE SamePosition(h, S, slotsOnly)

\* The original graph against the loaded one.
RoundTrip(slotsOnly) ==
    SamePosition(heap, {<<loadedFrom, loadResult.v>>}, slotsOnly)

\* Two attribute values are equal up to the identity of the nodes in them.
Alike(v, w) ==
    IF v.k = "list"
    THEN /\ w.k = "list"
         /\ Len(v.v) = Len(w.v)
         /\ \A i \in DOMAIN v.v :
              IF v.v[i].k = "obj" THEN w.v[i].k = "obj" ELSE v.v[i] = w.v[i]
    ELSE IF v.k = "obj" THEN w.k = "obj"
    ELSE v = w

\* Same class, same data attributes, values alike.
SameNode(h, a, b) ==
    /\ h[a].cls = h[b].cls
    /\ DOMAIN h[a].attrs = DOMAIN h[b].attrs
    /\ \A n \in DOMAIN h[a].attrs : Alike(h[a].attrs[n], h[b].attrs[n])

\* C1: load_dict(to_dict(ast)) is structurally equal to ast: every node has
\* the same class and every data attribute of every node has an equal value
\* after the round trip.
C1_RoundTripEqual ==
    loads > 0 =>
        /\ Loaded
        /\ \A p \in RoundTrip(FALSE) : SameNode(heap, p[1], p[2])

\* C2: in load_dict(to_dict(g)) two field positions refer to the same node
\* exactly when they referred to the same node in g, whatever nodes g
\* shares and whatever cycles its warp targets form.
C2_IdentityPreserved ==
    loads > 0 =>
        /\ Loaded
        /\ \A p, q \in RoundTrip(TRUE) : (p[1] = q[1]) <=> (p[2] = q[2])

\* A graph whose root is entered again from inside (a cycle through warp
\* targets) and in which some node is held at two field positions has been
\* loaded.
C2_Witness ==
    /\ Loaded
    /\ LET R == RoundTrip(TRUE) IN
         /\ \E q \in R : <<loadedFrom, loadResult.v>> \in Kids(heap, q, TRUE)
         /\ \E q1, q2 \in R : q1 # q2 /\ Kids(heap, q1, TRUE) \cap Kids(heap, q2, TRUE) # {}

-----------------------------------------------------------------------------
(* Claims about traversal (SpecVisit)                                      *)

\* The nodes that got a hook call in the last traversal, and where.
Seen == {travLog[i].node : i \in DOMAIN travLog}
At(a) == {i \in DOMAIN travLog : travLog[i].node = a}
First(a) == CHOOSE i \in At(a) : \A j \in At(a) : i <= j
Last(a) == CHOOSE i \in At(a) : \A j \in At(a) : j <= i

\* The nodes an attribute value holds.
NodesIn(v) ==
    IF v.k = "obj" THEN {v.v}
    ELSE IF v.k = "list" THEN {v.v[i].v : i \in {j \in DOMAIN v.v : v.v[j].k = "obj"}}
    ELSE {}

WarpClasses == {"UnconditionalWarp", "ConditionalWarp", "IteratorWarp",
                "NumericLoopWarp", "EndWarp"}

\* The attributes through which a warp points at blocks.
WarpEdges == {"target", "true_target", "false_target", "body", "way_out"}

\* The children of a node: the nodes its attributes hold, a warp's edges
\* left out.
Children(h, a) ==
    UNION {NodesIn(h[a].attrs[n]) :
             n \in DOMAIN h[a].attrs \ (IF h[a].cls \in WarpClasses THEN WarpEdges ELSE {})}

\* The nodes of the trees below the nodes of S, S included.
RECURSIVE Subtree(_, _)
Subtree(h, S) ==
    LET T == S \cup UNION {Children(h, a) : a \in S} IN
    IF T = S THEN S ELSE Subtree(h, T)

\* Every hook call for what attribute f of node a holds comes before every
\* hook call for what its attribute g holds.
Ordered(a, f, g) ==
    \A x \in NodesIn(GetAttr(heap, a, f)) \cap Seen,
       y \in NodesIn(GetAttr(heap, a, g)) \cap Seen : Last(x) < First(y)

ExecutionOrder(a) ==
    CASE heap[a].cls = "FunctionCall" -> Ordered(a, "arguments", "function")
      [] heap[a].cls = "GetItem" -> Ordered(a, "key", "table")
      [] heap[a].cls = "Assignment" -> Ordered(a, "expressions", "destinations")
      [] heap[a].cls = "RepeatUntil" -> Ordered(a, "statements", "expression")
      [] heap[a].cls = "While" -> Ordered(a, "expression", "statements")
      [] OTHER -> TRUE

\* The enter hook of a is its first hook call and the leave hook its last,
\* and the hook calls of its children lie in between.
Bracketed(a) ==
    /\ travLog[First(a)].ev = "visit"
    /\ travLog[Last(a)].ev = "leave"
    /\ \A c \in (Children(heap, a) \cap Seen) \ {a} :
         First(a) < First(c) /\ Last(c) < Last(a)

\* C5: in every traversal a FunctionCall's arguments get their hook calls
\* before its function expression, a GetItem's key before its table, an
\* Assignment's expressions before its destinations, a RepeatUntil's body
\* before its condition and a While's condition before its body; and every
\* node's enter hook comes before, and its leave hook after, all hook calls
\* of its children.
C5_ExecutionOrder ==
    travEnded => \A a \in Seen : ExecutionOrder(a) /\ Bracketed(a)

\* A traversal has come through a FunctionCall, a GetItem and an Assignment
\* whose two sides both got hook calls.
C5_Witness ==
    /\ travEnded
    /\ \A c \in {"FunctionCall", "GetItem", "Assignment"} :
         \E a \in Seen :
            /\ heap[a].cls = c
            /\ \A n \in {"arguments", "function", "key", "table", "expressions",
                         "destinations"} \cap DOMAIN heap[a].attrs :
                 NodesIn(heap[a].attrs[n]) \cap Seen # {}

-----------------------------------------------------------------------------
(* Claims about the workers of the batch driver (SpecDriver)               *)

\* C11: every task's output path lies in the directory of the output tree
\* that mirrors the directory of its input file, and no two tasks that run
\* at the same time are given the same output path, whatever the input tree
\* and the rename hook.
C11_DistinctOutputPaths ==
    /\ \A i \in DOMAIN fs :
         /\ fs[i].path_out[1] = fs[i].path_in[1]
         /\ fs[i].path_out[1] \in outDirs
    /\ \A i, j \in Running : i # j => fs[i].path_out # fs[j].path_out

-----------------------------------------------------------------------------
(* Claims about the table-constructor guard (SpecGuard, SpecVisit)         *)

\* The hook calls made for table constructor a, among all traversals.
EntersOf(a) == {i \in DOMAIN hookLog : hookLog[i].node = a /\ hookLog[i].ev = "visit"}
LeavesOf(a) == {i \in DOMAIN hookLog : hookLog[i].node = a /\ hookLog[i].ev = "leave"}

Tables == {a \in DOMAIN heap : heap[a].cls = "TableConstructor"}

\* C12: whatever traversals are in progress, by one visitor or by several,
\* the enter hook of a table constructor never fires while an earlier enter
\* hook of that table constructor still waits for its leave hook: between
\* any two enter hooks of one table constructor lies a leave hook of it.
C12_NoReentry ==
    \A a \in Tables :
        \A i, j \in EntersOf(a) :
            i < j => \E k \in LeavesOf(a) : i < k /\ k < j

\* C13: in every traversal that has come to its end, every table
\* constructor of the tree below the root got its enter hook and its leave
\* hook exactly once, whichever traversals were made before and with
\* whichever visitor.
C13_TablesNotSkipped ==
    travEnded =>
        \A a \in Tables \cap Subtree(heap, {travRoot}) :
            /\ Cardinality({i \in At(a) : travLog[i].ev = "visit"}) = 1
            /\ Cardinality({i \in At(a) : travLog[i].ev = "leave"}) = 1

-----------------------------------------------------------------------------
(* Claims about the output of to_dict (SpecSer)                            *)

\* The dictionaries of a to_dict output are listed in the order in which
\* they start, by working through the values still to be read: a dictionary
\* is listed and its entries' values are read next, a list's items are read
\* next, any other value is passed over.
ReadNext(s) ==
    LET v == Head(s.todo)
        rest == Tail(s.todo) IN
    IF v.k = "dict"
    THEN [todo |-> [i \in DOMAIN v.v.items |-> v.v.items[i][2]] \o rest,
          out |-> Append(s.out, [class |-> v.v.class, id |-> v.v.id,
                                 names |-> [i \in DOMAIN v.v.items |-> v.v.items[i][1]]])]
    ELSE IF v.k = "list" THEN [todo |-> v.v \o rest, out |-> s.out]
    ELSE [todo |-> rest, out |-> s.out]

\* 2^k values read, or as many as there are.
RECURSIVE ReadAll(_, _)
ReadAll(s, k) ==
    IF k = 0 THEN (IF s.todo = << >> THEN s ELSE ReadNext(s))
    ELSE Only({IF half.todo = << >> THEN half ELSE ReadAll(half, k - 1) :
                 half \in {ReadAll(s, k - 1)}})

\* Enough to read every value of an output.
ReadLog == MaxStepsLog + 2

\* The dictionaries of output d, in the order in which they start.
Entries(d) == ReadAll([todo |-> <<d>>, out |-> << >>], ReadLog).out

\* The nodes reached from a through serialised slots, a included.
RECURSIVE SlotReach(_, _)
SlotReach(h, S) ==
    LET T == S \cup UNION {UNION {NodesIn(h[a].attrs[n]) : n \in Followed(h, a, TRUE)} :
                              a \in S} IN
    IF T = S THEN S ELSE SlotReach(h, T)

\* C14: to_dict returns, and in its output every node reached from the
\* root has exactly one full entry (its class, its _id and all its slots),
\* every entry is a node reached from the root, and every Ref entry comes
\* after the start of the full entry with its _id: the full entry is the
\* node's first occurrence in depth-first slot order.
C14_FullEntryOnceThenRefs ==
    serRoot # 0 =>
        LET E == Entries(serDict)
            Full == {i \in DOMAIN E : E[i].class # "Ref"} IN
        /\ serDict.k = "dict"
        /\ {E[i].id : i \in DOMAIN E} = SlotReach(heap, {serRoot})
        /\ \A a \in SlotReach(heap, {serRoot}) :
             Cardinality({i \in Full : E[i].id = a}) = 1
        /\ \A i \in Full :
             /\ E[i].class = heap[E[i].id].cls
             /\ E[i].names = ClassOf(E[i].class).slots
        /\ \A i \in DOMAIN E \ Full :
             /\ E[i].names = << >>
             /\ \E j \in Full : j < i /\ E[j].id = E[i].id

\* to_dict has returned the output of a graph with a cycle through warp
\* targets: some Ref names a node whose full entry is still open, and some
\* node is given in full below the root.
C14_Witness ==
    /\ serRoot # 0
    /\ LET E == Entries(serDict) IN
         /\ \E i \in DOMAIN E : E[i].class = "Ref" /\ E[i].id = serRoot
         /\ \E i \in DOMAIN E : E[i].class = "Ref" /\ E[i].id # serRoot
         /\ Cardinality({i \in DOMAIN E : E[i].class # "Ref"}) > 2

-----------------------------------------------------------------------------
(* Claims about successive load_dict calls (SpecLoad)                      *)

\* What load_dict gives for the last argument when no call came before it:
\* the mapping is empty.
LoadedAlone == LoadDict(heap, [x \in {} |-> 0], loadData)

\* C15: the outcome of a load_dict call is that of the same call made with
\* no call before it: it raises exactly when that one raises (so a Ref whose
\* _id has no full entry earlier in the argument raises and is not resolved
\* to a node of an earlier call), and what it returns has, position by
\* position, nodes of the same classes with the same attribute values.
C15_LoadsIndependent ==
    loads > 0 =>
        /\ loadErr = LoadedAlone.err
        /\ ~loadErr =>
             /\ loadResult.k = LoadedAlone.val.k
             /\ \A p \in SamePosition(LoadedAlone.heap,
                                      ValuePairs(loadResult, LoadedAlone.val), FALSE) :
                  SameNode(LoadedAlone.heap, p[1], p[2])

=============================================================================
